---- MODULE Spec2Model ----
(***************************************************************************)
(* A model of initrz (danyspin97/initrz): the boot agent's module loader,  *)
(* uevent listener, device handler and orchestrator.                       *)
(*                                                                         *)
(* The module holds several state machines over one set of variables.      *)
(* Each specification moves the variables of one subsystem and leaves the  *)
(* others at their initial value:                                          *)
(*   SpecLoader   ModuleLoader::load_module under concurrent callers       *)
(*   SpecUevent   UeventListener::listen and get_device_path               *)
(*   SpecHandler  DeviceHandler::handle over crypttabs and root specs       *)
(*   SpecBoot     initrz()/main() with the listener and handler threads     *)
(*   SpecNewc     mkinitrz's Archive::into_bytes and a reader of its bytes  *)
(*   SpecBuild    mkinitrz's Initramfs::new over hosts and module lists     *)
(*   SpecParse    the parsers of modules.dep and of the kernel command line *)
(*   SpecAlias    ModuleLoader::load_modalias over modules.alias files       *)
(*   SpecFormat   ModuleLoader::load_module over module files of any format *)
(*   SpecElf      the add_elf calls of Initramfs::new over library graphs   *)
(*   SpecLock     load_module with the RwLock of the loaded set, two threads *)
(*   SpecDeps     load_module on one thread over a module with two deps     *)
(*   SpecMain     mkinitrz's main: output file, checks, build, write         *)
(***************************************************************************)
EXTENDS Integers, Sequences, FiniteSets, TLC

VARIABLES
    modules_loaded,  \* ModuleLoader.modules_loaded: RwLock<HashSet<String>>
    kernel,          \* the modules the running kernel holds (init_module's effect)
    stack,           \* per thread: the load_module frames it is in, innermost last
    results,         \* per thread: the outcome of each finished top-level load()
    initCalls,       \* per thread and module: init_module calls made so far
    ue_pc,           \* UeventListener::listen: "recv" in the loop, "stopped" after break
    ue_last,         \* the last iteration of the loop: what was read and what came of it
    ue_sent,         \* the paths sent on device_tx so far, oldest first
    ue_rx_open,      \* whether the receiving end of the device channel still exists
    h_enc,           \* DeviceHandler.encrypted_devices (the parsed crypttab)
    h_root,          \* DeviceHandler.root.identifier (from the kernel command line)
    h_root_mount,    \* DeviceHandler.root_mount: NoMount, or the device mounted
    h_last,          \* the last handle() call: its path, what it did, what it returned
    m_pc,            \* main thread: the step of initrz()/main() it is at
    m_err,           \* the step whose error made initrz() return Err ("" for none)
    m_tried,         \* the programs main has called exec for
    b_cache,         \* the devices in the blkid cache after main's probe
    b_events,        \* the device paths the listener thread has sent, oldest first
    b_mounts,        \* how many mount_root calls have succeeded
    b_handled,       \* how many paths the handler thread has handled
    dev_chan,        \* the device channel (device_tx -> device_rx)
    res_chan,        \* the result channel (res_tx -> res_rx)
    l_pc,            \* listener thread: "unborn", "running", "stopped"
    d_pc,            \* handler thread: "unborn", "recv", "done"
    d_exit,          \* why DeviceHandler::listen left its loop ("" while it has not)
    waited,          \* seconds the pending recv_timeout has waited
    n_entries,       \* Archive.entries: the list handed to Archive::into_bytes
    n_idx,           \* into_bytes: the index of the entry its loop is at
    n_buf,           \* into_bytes: buf, one element per byte
    n_pc,            \* into_bytes: "idle", "loop", "done" (Ok(buf)) or "error"
    r_pos,           \* the archive's reader: its offset into the bytes
    r_out,           \* the archive's reader: the entries it has read
    r_pc,            \* the archive's reader: "read", "end" (trailer met) or "bad"
    g_host,          \* the host a build runs on: files, modules.dep, profile
    g_pc,            \* Initramfs::new: the statement it is at, "done" or "failed"
    g_entries,       \* Initramfs.entries: Vec<Entry>
    g_files,         \* Initramfs.files: HashSet<Utf8PathBuf>
    g_last,          \* the last add made by new(): its path and what it returned
    gm_order,        \* get_modules: the indexes the parallel filter has finished, in order of finishing
    g_modules,       \* the Vec get_modules returned
    g_mi,            \* how many of g_modules new() has added
    g_resolved,      \* the paths depend::resolve was called with, oldest first
    p_fn,            \* the parsing function a run of SpecParse applies
    p_in,            \* its input: the lines of a file, or a command line
    p_out,           \* what it returned (NotParsed before the call)
    a_file,          \* modules.alias: its lines
    a_last,          \* the last load_modalias call: its modalias, the load_module call it made, its result
    f_format,        \* per module of the index: the FileFormat of its file ("xz", "zstd", "other")
    o_opts,          \* mkinitrz main: what its options find on the host
    o_pc,            \* mkinitrz main: the statement it is at, "exit_ok" or "exit_err"
    o_file,          \* the file at the output path: "absent", "old", "empty", "partial" or "image"
    rw               \* the RwLock of modules_loaded: the threads holding a read guard, the one holding the write guard

loaderVars == <<modules_loaded, kernel, stack, results, initCalls>>

ueventVars == <<ue_pc, ue_last, ue_sent, ue_rx_open>>

handlerVars == <<h_enc, h_root, h_root_mount, h_last>>

bootVars ==
    <<m_pc, m_err, m_tried, b_cache, b_events, b_mounts, b_handled,
      dev_chan, res_chan, l_pc, d_pc, d_exit, waited>>

newcVars == <<n_entries, n_idx, n_buf, n_pc, r_pos, r_out, r_pc>>

buildVars ==
    <<g_host, g_pc, g_entries, g_files, g_last, gm_order, g_modules, g_mi,
      g_resolved>>

parseVars == <<p_fn, p_in, p_out>>

aliasVars == <<a_file, a_last>>

formatVars == <<f_format>>

lockVars == <<rw>>

outVars == <<o_opts, o_pc, o_file>>

vars == <<loaderVars, ueventVars, handlerVars, bootVars, newcVars, buildVars, parseVars, aliasVars, formatVars, lockVars, outVars>>

(***************************************************************************)
(* Bounds of the model.                                                    *)
(***************************************************************************)
MaxCalls == 2
MaxSent == 2
MaxEvents == 2
MaxEntries == 2
MaxModules == 2
MaxDeps == 3

\* The threads that call load_module: the main thread (the virtio preload and
\* the /sys modalias walk) and the uevent listener thread (load_modalias).
Threads == {"main", "listener"}

(***************************************************************************)
(* The module index (ModuleLoader.modules), as parse_module_dep builds it  *)
(* from modules.dep: name -> deps in load order.  "x" is named as a        *)
(* dependency but has no line of its own (a builtin module).  "d" has a    *)
(* dependency, "e", after one that has a dependency of its own.            *)
(***************************************************************************)
modules ==
    [n \in {"a", "b", "c", "d", "e"} |->
        CASE n = "a" -> [filename |-> "kernel/a.ko.xz", deps |-> <<>>]
          [] n = "b" -> [filename |-> "kernel/b.ko.xz", deps |-> <<"a">>]
          [] n = "c" -> [filename |-> "kernel/c.ko.xz", deps |-> <<"x", "b">>]
          [] n = "d" -> [filename |-> "kernel/d.ko.xz", deps |-> <<"b", "e">>]
          [] n = "e" -> [filename |-> "kernel/e.ko.xz", deps |-> <<>>]]

\* The names the callers of the concurrent specifications ask for, and
\* those of the specification of one thread loading d.
Names == {"a", "b", "c", "x"}

DepNames == {"a", "b", "d", "e"}

Range(s) == {s[i] : i \in 1..Len(s)}

\* module.deps of a name of the index (load_module iterates over it).
LoaderDepsSkipped(name) == <<>>

LoaderDeps(name) == modules[name].deps

\* The names reachable through deps, whether or not they are in the index.
RECURSIVE TransDeps(_)
TransDeps(name) ==
    IF name \notin DOMAIN modules THEN {}
    ELSE Range(modules[name].deps)
         \cup UNION {TransDeps(d) : d \in Range(modules[name].deps)}

IndexedTransDeps(name) == TransDeps(name) \cap DOMAIN modules

(***************************************************************************)
(* load_module, one atomic step per lock-protected section or system call. *)
(*   check : read lock, contains(), drop; index lookup                     *)
(*   deps  : the recursive load_module(dep) call for deps[i]               *)
(*   mark  : write lock, insert into modules_loaded, drop                  *)
(*   init  : open + decompress the file, init_module                       *)
(***************************************************************************)
Top(t) == stack[t][Len(stack[t])]

\* A dependency's Err that is not propagated.
NeverErr(r) == FALSE

IsErr(r) == r \in {"EEXIST", "Failed"}

\* The read-locked test `modules_loaded.contains(module_name)`.
AlreadyLoadedNever(name) == FALSE

AlreadyLoaded(name) == name \in modules_loaded

\* What load_module returns for a name the index does not hold: Ok(false).
UnknownReturnErr == "Failed"

UnknownReturn == "Unknown"

\* The outcomes of opening, decompressing and init_module-ing a module:
\* EEXIST when the kernel already holds it, else success or another error.
\* A file that is neither xz nor zstd leaves buf empty, and init_module is
\* called on the empty image, which the kernel refuses.
InitModule(name) ==
    IF f_format[name] = "other" THEN {"Failed"}
    ELSE IF name \in kernel THEN {"EEXIST"} ELSE {"ok", "Failed"}

\* `init_module(..).with_context(..)?; Ok(true)`: every errno is an Err.
InitReturn(r) == IF r = "ok" THEN "Loaded" ELSE r

AfterDep(name, i) ==
    IF i <= Len(LoaderDeps(name)) THEN [name |-> name, pc |-> "deps", i |-> i]
    ELSE [name |-> name, pc |-> "mark", i |-> i]

\* The stack of a thread after its innermost frame returned r: `?` unwinds
\* every frame on an Err; otherwise the caller goes on with its next dep
\* (the bool of a dep's load is dropped).
RECURSIVE Unwind(_, _)
Unwind(s, r) ==
    IF s = <<>> THEN <<>>
    ELSE LET rest == SubSeq(s, 1, Len(s) - 1) IN
         IF rest = <<>> THEN <<>>
         ELSE IF IsErr(r) THEN Unwind(rest, r)
         ELSE LET p == rest[Len(rest)] IN
              SubSeq(rest, 1, Len(rest) - 1) \o <<AfterDep(p.name, p.i + 1)>>

Return(t, r) ==
    LET s == Unwind(stack[t], r) IN
    /\ stack' = [stack EXCEPT ![t] = s]
    /\ results' = IF s = <<>>
                  THEN [results EXCEPT
                          ![t] = Append(@, [name |-> stack[t][1].name, res |-> r])]
                  ELSE results

\* A caller (main, the uevent listener, a rayon worker) starts load(name).
Call(t, name) ==
    /\ stack[t] = <<>>
    /\ Len(results[t]) < MaxCalls
    /\ stack' = [stack EXCEPT ![t] = <<[name |-> name, pc |-> "check", i |-> 1]>>]
    /\ UNCHANGED <<modules_loaded, kernel, results, initCalls>>
    /\ UNCHANGED <<ueventVars, handlerVars, bootVars, newcVars, buildVars, parseVars, aliasVars, formatVars, lockVars, outVars>>

Check(t) ==
    /\ stack[t] # <<>>
    /\ Top(t).pc = "check"
    /\ IF AlreadyLoaded(Top(t).name) THEN Return(t, "Loaded")
       ELSE IF Top(t).name \notin DOMAIN modules THEN Return(t, UnknownReturn)
       ELSE /\ stack' = [stack EXCEPT ![t][Len(stack[t])] = AfterDep(Top(t).name, 1)]
            /\ UNCHANGED results
    /\ UNCHANGED <<modules_loaded, kernel, initCalls>>
    /\ UNCHANGED <<ueventVars, handlerVars, bootVars, newcVars, buildVars, parseVars, aliasVars, formatVars, lockVars, outVars>>

LoadDep(t) ==
    /\ stack[t] # <<>>
    /\ Top(t).pc = "deps"
    /\ stack' = [stack EXCEPT ![t] =
                   Append(@, [name |-> LoaderDeps(Top(t).name)[Top(t).i],
                              pc |-> "check", i |-> 1])]
    /\ UNCHANGED <<modules_loaded, kernel, results, initCalls>>
    /\ UNCHANGED <<ueventVars, handlerVars, bootVars, newcVars, buildVars, parseVars, aliasVars, formatVars, lockVars, outVars>>

Mark(t) ==
    /\ stack[t] # <<>>
    /\ Top(t).pc = "mark"
    /\ modules_loaded' = modules_loaded \cup {Top(t).name}
    /\ stack' = [stack EXCEPT ![t][Len(stack[t])].pc = "init"]
    /\ UNCHANGED <<kernel, results, initCalls>>
    /\ UNCHANGED <<ueventVars, handlerVars, bootVars, newcVars, buildVars, parseVars, aliasVars, formatVars, lockVars, outVars>>

InitStep(t) ==
    /\ stack[t] # <<>>
    /\ Top(t).pc = "init"
    /\ \E r \in InitModule(Top(t).name) :
          /\ kernel' = IF r = "ok" THEN kernel \cup {Top(t).name} ELSE kernel
          /\ Return(t, InitReturn(r))
    /\ initCalls' = [initCalls EXCEPT ![t][Top(t).name] = @ + 1]
    /\ UNCHANGED modules_loaded
    /\ UNCHANGED <<ueventVars, handlerVars, bootVars, newcVars, buildVars, parseVars, aliasVars, formatVars, lockVars, outVars>>

LoaderInit ==
    /\ modules_loaded = {}
    /\ kernel = {}
    /\ stack = [t \in Threads |-> <<>>]
    /\ results = [t \in Threads |-> <<>>]
    /\ initCalls = [t \in Threads |-> [n \in DOMAIN modules |-> 0]]

(***************************************************************************)
(* load_module with the RwLock of modules_loaded: the steps check and mark *)
(* are split at read() and write(), which wait for the lock, and the       *)
(* guard is dropped where the code drops it.                               *)
(***************************************************************************)
NoWriter == "none"

Unlocked == [readers |-> {}, writer |-> NoWriter]

LockFree == rw = Unlocked

\* A guard that is never dropped.
NotDropped(t) == rw

\* drop(modules_loaded), or the guard going out of scope at a return.
Dropped(t) ==
    [readers |-> rw.readers \ {t},
     writer |-> IF rw.writer = t THEN NoWriter ELSE rw.writer]

\* self.modules_loaded.read().unwrap()
ReadLock(t) ==
    /\ stack[t] # <<>>
    /\ Top(t).pc = "check"
    /\ t \notin rw.readers
    /\ rw.writer = NoWriter
    /\ rw' = [rw EXCEPT !.readers = @ \cup {t}]
    /\ UNCHANGED loaderVars
    /\ UNCHANGED <<ueventVars, handlerVars, bootVars, newcVars, buildVars, parseVars, aliasVars, formatVars, outVars>>

\* contains() under the read guard; the guard is dropped in the branch
\* that loads, and at the return of the other.
CheckLocked(t) ==
    /\ stack[t] # <<>>
    /\ Top(t).pc = "check"
    /\ t \in rw.readers
    /\ IF AlreadyLoaded(Top(t).name) THEN Return(t, "Loaded")
       ELSE IF Top(t).name \notin DOMAIN modules THEN Return(t, UnknownReturn)
       ELSE /\ stack' = [stack EXCEPT ![t][Len(stack[t])] = AfterDep(Top(t).name, 1)]
            /\ UNCHANGED results
    /\ rw' = Dropped(t)
    /\ UNCHANGED <<modules_loaded, kernel, initCalls>>
    /\ UNCHANGED <<ueventVars, handlerVars, bootVars, newcVars, buildVars, parseVars, aliasVars, formatVars, outVars>>

\* self.modules_loaded.write().unwrap()
WriteLock(t) ==
    /\ stack[t] # <<>>
    /\ Top(t).pc = "mark"
    /\ rw = Unlocked
    /\ rw' = [rw EXCEPT !.writer = t]
    /\ UNCHANGED loaderVars
    /\ UNCHANGED <<ueventVars, handlerVars, bootVars, newcVars, buildVars, parseVars, aliasVars, formatVars, outVars>>

\* The test-and-insert under the write guard, and drop(modules_loaded).
MarkLocked(t) ==
    /\ stack[t] # <<>>
    /\ Top(t).pc = "mark"
    /\ rw.writer = t
    /\ modules_loaded' = modules_loaded \cup {Top(t).name}
    /\ stack' = [stack EXCEPT ![t][Len(stack[t])].pc = "init"]
    /\ rw' = Dropped(t)
    /\ UNCHANGED <<kernel, results, initCalls>>
    /\ UNCHANGED <<ueventVars, handlerVars, bootVars, newcVars, buildVars, parseVars, aliasVars, formatVars, outVars>>

LockNext ==
    \/ \E t \in Threads, n \in Names : Call(t, n)
    \/ \E t \in Threads : ReadLock(t)
    \/ \E t \in Threads : CheckLocked(t)
    \/ \E t \in Threads : LoadDep(t)
    \/ \E t \in Threads : WriteLock(t)
    \/ \E t \in Threads : MarkLocked(t)
    \/ \E t \in Threads : InitStep(t)

\* load_module on one thread, over the modules with d's dependencies.
DepsNext ==
    \/ \E n \in DepNames : Call("main", n)
    \/ Check("main")
    \/ LoadDep("main")
    \/ Mark("main")
    \/ InitStep("main")

\* The formats of the module files: all xz, or any.
FormatFixed == f_format = [n \in DOMAIN modules |-> "xz"]

FileFormats == {"xz", "zstd", "other"}

FormatInit == f_format \in [DOMAIN modules -> FileFormats]

\* load_module on one thread, over module files of every format.
FormatNext ==
    \/ \E n \in Names : Call("main", n)
    \/ Check("main")
    \/ LoadDep("main")
    \/ Mark("main")
    \/ InitStep("main")

LoaderNext ==
    \E t \in Threads :
        \/ \E n \in Names : Call(t, n)
        \/ Check(t)
        \/ LoadDep(t)
        \/ Mark(t)
        \/ InitStep(t)

(***************************************************************************)
(* Strings whose characters the code looks at are sequences of one-        *)
(* character strings; the operators below are the std::path and str calls  *)
(* the listener makes.                                                     *)
(***************************************************************************)
StartsWith(s, prefix) ==
    Len(s) >= Len(prefix) /\ SubSeq(s, 1, Len(prefix)) = prefix

Whitespace == {" ", "\n", "\t"}

RECURSIVE TrimStart(_)
TrimStart(s) ==
    IF s # <<>> /\ s[1] \in Whitespace THEN TrimStart(Tail(s)) ELSE s

RECURSIVE TrimEnd(_)
TrimEnd(s) ==
    IF s # <<>> /\ s[Len(s)] \in Whitespace
    THEN TrimEnd(SubSeq(s, 1, Len(s) - 1)) ELSE s

\* str::trim
Trim(s) == TrimEnd(TrimStart(s))

RECURSIVE StripSlashes(_)
StripSlashes(s) ==
    IF s # <<>> /\ s[Len(s)] = "/"
    THEN StripSlashes(SubSeq(s, 1, Len(s) - 1)) ELSE s

LastSlash(s) ==
    LET at == {i \in 1..Len(s) : s[i] = "/"} IN
    IF at = {} THEN 0 ELSE CHOOSE i \in at : \A j \in at : j <= i

\* Path::file_name: the last component, <<>> (None) when there is none or
\* when it is "..".
FileName(p) ==
    LET q == StripSlashes(p)
        name == SubSeq(q, LastSlash(q) + 1, Len(q))
    IN IF name = <<".", ".">> THEN <<>> ELSE name

\* Path::join: an absolute argument replaces the base.
PathJoin(base, rel) ==
    IF StartsWith(rel, <<"/">>) THEN rel
    ELSE IF base # <<>> /\ base[Len(base)] = "/" THEN base \o rel
    ELSE base \o <<"/">> \o rel

P_sys == <<"/", "s", "y", "s">>
P_dev == <<"/", "d", "e", "v">>
P_dev_mapper == <<"/", "d", "e", "v", "/", "m", "a", "p", "p", "e", "r">>
P_dm_name == <<"d", "m", "/", "n", "a", "m", "e">>
P_dm_prefix == <<"d", "m", "-">>

\* The DEVPATH values of the uevents of the model: a partition, a
\* device-mapper device, and a device whose name only contains "dm-".
DP_sda1 == <<"/", "b", "/", "s", "d", "a", "1">>
DP_dm0 == <<"/", "b", "/", "d", "m", "-", "0">>
DP_xdm == <<"/", "b", "/", "x", "d", "m", "-">>

DevPaths == {DP_sda1, DP_dm0, DP_xdm}

\* sysfs as the kernel lays it out: a device-mapper device has the file
\* /sys<DEVPATH>/dm/name, which holds the mapping's name and a newline.
SysFs ==
    [f \in {PathJoin(P_sys \o DP_dm0, P_dm_name)} |-> <<"r", "t", "\n">>]

(***************************************************************************)
(* Uevents as parse_uevent returns them: vars maps the keys the message    *)
(* carried to their values.                                                *)
(***************************************************************************)
UeventKeys == {"ACTION", "SUBSYSTEM", "DEVPATH", "MODALIAS"}

\* A uevent is the set of keys its message carried (has) and their values;
\* the value of a key that is not carried is never read.
Uevents ==
    {u \in [has : {UeventKeys, UeventKeys \ {"MODALIAS"},
                   UeventKeys \ {"MODALIAS", "ACTION"},
                   UeventKeys \ {"MODALIAS", "SUBSYSTEM"},
                   UeventKeys \ {"MODALIAS", "DEVPATH"}},
            action : {"add", "change", "remove"},
            subsystem : {"block", "usb"},
            devpath : DevPaths] :
        /\ "ACTION" \notin u.has => u.action = "add"
        /\ "SUBSYSTEM" \notin u.has => u.subsystem = "block"
        /\ "DEVPATH" \notin u.has => u.devpath = DP_sda1}

\* The result of get_device_path: Err, Ok(None) or Ok(Some(path)).
RErr == [kind |-> "Err", path |-> <<>>]
RNone == [kind |-> "None", path |-> <<>>]
RSome(path) == [kind |-> "Some", path |-> path]

\* The file get_device_path reads the mapping's name from.
DmNameFile(u, devname) == PathJoin(PathJoin(P_sys, devname), P_dm_name)

\* The text of the file as it goes into the emitted path.
DmNameText(text) == text

\* get_device_path(uevent); modalias_ok is whether load_modalias returned Ok.
GetDevicePath(u, modalias_ok) ==
    IF "MODALIAS" \in u.has /\ ~modalias_ok THEN RErr
    ELSE IF "DEVPATH" \notin u.has THEN RErr
    ELSE LET devname == FileName(u.devpath) IN
    IF devname = <<>> THEN RErr
    ELSE IF "ACTION" \notin u.has THEN RErr
    ELSE IF "SUBSYSTEM" \notin u.has THEN RErr
    ELSE IF u.subsystem # "block" THEN RNone
    ELSE IF StartsWith(devname, P_dm_prefix) /\ u.action # "change" THEN RNone
    ELSE IF ~StartsWith(devname, P_dm_prefix) /\ u.action # "add" THEN RNone
    ELSE IF StartsWith(devname, P_dm_prefix)
         THEN LET dm_name == DmNameFile(u, devname) IN
              IF dm_name \notin DOMAIN SysFs THEN RErr
              ELSE RSome(PathJoin(P_dev_mapper, DmNameText(SysFs[dm_name])))
         ELSE RSome(PathJoin(P_dev, devname))

NoUevent == [step |-> "none"]

RecvErrorBreaks ==
    /\ ue_pc = "recv"
    /\ ue_last' = [step |-> "recv_error"]
    /\ ue_pc' = "stopped"
    /\ UNCHANGED <<ue_sent, ue_rx_open>>
    /\ UNCHANGED <<loaderVars, handlerVars, bootVars, newcVars, buildVars, parseVars, aliasVars, formatVars, lockVars, outVars>>

\* socket.recv fails: `continue`.
RecvError ==
    /\ ue_pc = "recv"
    /\ ue_last' = [step |-> "recv_error"]
    /\ UNCHANGED <<ue_pc, ue_sent, ue_rx_open>>
    /\ UNCHANGED <<loaderVars, handlerVars, bootVars, newcVars, buildVars, parseVars, aliasVars, formatVars, lockVars, outVars>>

\* socket.recv returns 0 bytes: `continue`.
RecvEmpty ==
    /\ ue_pc = "recv"
    /\ ue_last' = [step |-> "recv_empty"]
    /\ UNCHANGED <<ue_pc, ue_sent, ue_rx_open>>
    /\ UNCHANGED <<loaderVars, handlerVars, bootVars, newcVars, buildVars, parseVars, aliasVars, formatVars, lockVars, outVars>>

\* parse_uevent fails (no '@' in the first token): warn, `continue`.
ParseError ==
    /\ ue_pc = "recv"
    /\ ue_last' = [step |-> "parse_error"]
    /\ UNCHANGED <<ue_pc, ue_sent, ue_rx_open>>
    /\ UNCHANGED <<loaderVars, handlerVars, bootVars, newcVars, buildVars, parseVars, aliasVars, formatVars, lockVars, outVars>>

\* One iteration with a parsed uevent: get_device_path, then the send of a
\* Some(path); a failed send (the receiver is gone) breaks the loop.
HandleUevent(u, modalias_ok) ==
    LET res == GetDevicePath(u, modalias_ok) IN
    /\ ue_pc = "recv"
    /\ res.kind = "Some" /\ ue_rx_open => Len(ue_sent) < MaxSent
    /\ ue_last' = [step |-> "uevent", uevent |-> u, res |-> res]
    /\ IF res.kind = "Some"
       THEN IF ue_rx_open
            THEN ue_sent' = Append(ue_sent, res.path) /\ ue_pc' = ue_pc
            ELSE ue_sent' = ue_sent /\ ue_pc' = "stopped"
       ELSE UNCHANGED <<ue_sent, ue_pc>>
    /\ UNCHANGED ue_rx_open
    /\ UNCHANGED <<loaderVars, handlerVars, bootVars, newcVars, buildVars, parseVars, aliasVars, formatVars, lockVars, outVars>>

\* The receiving end of the device channel is dropped.
DropReceiver ==
    /\ ue_rx_open
    /\ ue_rx_open' = FALSE
    /\ UNCHANGED <<ue_pc, ue_last, ue_sent>>
    /\ UNCHANGED <<loaderVars, handlerVars, bootVars, newcVars, buildVars, parseVars, aliasVars, formatVars, lockVars, outVars>>

UeventInit ==
    /\ ue_pc = "recv"
    /\ ue_last = NoUevent
    /\ ue_sent = <<>>
    /\ ue_rx_open = TRUE

UeventNext ==
    \/ RecvError
    \/ RecvEmpty
    \/ ParseError
    \/ \E u \in Uevents : \E ok \in BOOLEAN : HandleUevent(u, ok)
    \/ DropReceiver

(***************************************************************************)
(* The device handler.  Device paths, UUIDs and tags are compared whole,   *)
(* so they are plain strings here.                                         *)
(***************************************************************************)
NoTag == "<none>"

\* The blkid cache: each block device's UUID and TYPE tags.
Blkid ==
    [d \in {"/dev/sda1", "/dev/sda2", "/dev/sdb", "/dev/sdc", "/dev/mapper/root"} |->
        CASE d = "/dev/sda1" -> [uuid |-> "u1", type |-> "ext4"]
          [] d = "/dev/sda2" -> [uuid |-> "u2", type |-> "crypto_LUKS"]
          [] d = "/dev/sdb" -> [uuid |-> NoTag, type |-> "lvm"]
          [] d = "/dev/sdc" -> [uuid |-> NoTag, type |-> NoTag]
          [] d = "/dev/mapper/root" -> [uuid |-> "u3", type |-> "ext4"]]

Devices == DOMAIN Blkid

\* Whether the device node of a path can exist when the path is handled:
\* devtmpfs makes /dev/sd* before the uevent is sent, a /dev/mapper node is
\* made by user space and may not be there yet.
NodeExists(path) ==
    IF path = "/dev/mapper/root" THEN BOOLEAN
    ELSE IF path \in Devices THEN {TRUE} ELSE {FALSE}

IdPath(p) == [kind |-> "Path", val |-> p]
IdUuid(u) == [kind |-> "Uuid", val |-> u]

\* The crypttabs and root specs of the model.
EncLists ==
    { <<>>,
      <<[name |-> "c1", identifier |-> IdUuid("u2")],
        [name |-> "c2", identifier |-> IdPath("/dev/sda2")]>>,
      <<[name |-> "c3", identifier |-> IdPath("/dev/sda1")],
        [name |-> "c4", identifier |-> IdUuid("u1")]>>,
      <<[name |-> "c5", identifier |-> IdUuid("u3")]>> }

Roots ==
    {IdUuid("u1"), IdPath("/dev/sda1"), IdPath("/dev/mapper/root"), IdUuid("u9")}

NoMount == "<none>"

\* blkid_cache.get_tag_value("UUID", path).unwrap_or(&"")
UuidOrEmpty(path) ==
    IF path \in Devices /\ Blkid[path].uuid # NoTag THEN Blkid[path].uuid ELSE ""

\* Iterator::find over a Vec, given the indexes of the elements that
\* satisfy the predicate: the first of them, 0 for None.
FindFirst(hits) ==
    IF hits = {} THEN 0 ELSE CHOOSE i \in hits : \A j \in hits : i <= j

PathMatches(enc, path) ==
    {i \in 1..Len(enc) : enc[i].identifier = IdPath(path)}

UuidMatches(enc, path) ==
    {i \in 1..Len(enc) : enc[i].identifier = IdUuid(UuidOrEmpty(path))}

\* get_encrypted_device, preferring a Uuid match.
GetEncryptedDeviceUuidFirst(enc, path) ==
    LET u == FindFirst(UuidMatches(enc, path)) IN
    IF u # 0 THEN u ELSE FindFirst(PathMatches(enc, path))

\* get_encrypted_device: find a Path record, or_else find a Uuid record.
GetEncryptedDevice(enc, path) ==
    LET p == FindFirst(PathMatches(enc, path)) IN
    IF p # 0 THEN p ELSE FindFirst(UuidMatches(enc, path))

\* get_path_from_identifier: Ok(path) as <<path>>, Err as <<>>.  A Uuid is
\* resolved through the blkid cache; a Path bails when the path exists.
GetPathFromIdentifier(id, exists) ==
    IF id.kind = "Uuid"
    THEN LET ds == {d \in Devices : Blkid[d].uuid = id.val} IN
         IF ds = {} THEN <<>> ELSE <<CHOOSE d \in ds : TRUE>>
    ELSE IF exists THEN <<>> ELSE <<id.val>>

\* is_root(devname)
IsRoot(root, devname, exists) ==
    GetPathFromIdentifier(root, exists) = <<devname>>

\* handle(path) under the outcomes env of what it calls.  Returns the calls
\* made in order (ops), the Result (res) and root_mount afterwards.
Handle(enc, root, root_mount, path, env) ==
    LET e == GetEncryptedDevice(enc, path) IN
    IF e # 0
    THEN [ops |-> <<<<"unlock", enc[e].name>>>>,
          res |-> IF env.unlock_ok THEN "Ok" ELSE "Err",
          root_mount |-> root_mount]
    ELSE IF IsRoot(root, path, env.exists)
    THEN [ops |-> <<<<"is_root", "">>, <<"mount_root", path>>>>,
          res |-> IF env.mount_ok THEN "Ok" ELSE "Err",
          root_mount |-> IF env.mount_ok THEN path ELSE root_mount]
    ELSE IF Blkid[path].type = NoTag
    THEN [ops |-> <<<<"is_root", "">>, <<"probe_type", "">>>>,
          res |-> "Ok", root_mount |-> root_mount]
    ELSE IF Blkid[path].type # "lvm"
    THEN [ops |-> <<<<"is_root", "">>, <<"probe_type", "">>, <<"probe_all_new", "">>>>,
          res |-> IF env.probe_ok THEN "Ok" ELSE "Err",
          root_mount |-> root_mount]
    ELSE IF ~env.vgchange_ok
    THEN [ops |-> <<<<"is_root", "">>, <<"probe_type", "">>, <<"vgchange", "">>>>,
          res |-> "Err", root_mount |-> root_mount]
    ELSE IF ~env.vgmknodes_ok
    THEN [ops |-> <<<<"is_root", "">>, <<"probe_type", "">>, <<"vgchange", "">>,
                    <<"vgmknodes", "">>>>,
          res |-> "Err", root_mount |-> root_mount]
    ELSE [ops |-> <<<<"is_root", "">>, <<"probe_type", "">>, <<"vgchange", "">>,
                    <<"vgmknodes", "">>, <<"probe_all_new", "">>>>,
          res |-> IF env.probe_ok THEN "Ok" ELSE "Err",
          root_mount |-> root_mount]

\* The outcomes of the calls handle(path) makes.
HandleEnvs(root, path) ==
    [unlock_ok : BOOLEAN, mount_ok : BOOLEAN, vgchange_ok : BOOLEAN,
     vgmknodes_ok : BOOLEAN, probe_ok : BOOLEAN,
     exists : IF root.kind = "Path" THEN NodeExists(root.val) ELSE {TRUE}]

NoHandle == [path |-> "", ops |-> <<>>, res |-> "Ok"]

\* handle(path) for a device path the listener sent.
HandleDevice(path, env) ==
    LET h == Handle(h_enc, h_root, h_root_mount, path, env) IN
    /\ h_last' = [path |-> path, ops |-> h.ops, res |-> h.res]
    /\ h_root_mount' = h.root_mount
    /\ UNCHANGED <<h_enc, h_root>>
    /\ UNCHANGED <<loaderVars, ueventVars, bootVars, newcVars, buildVars, parseVars, aliasVars, formatVars, lockVars, outVars>>

HandlerInit ==
    /\ h_enc \in EncLists
    /\ h_root \in Roots
    /\ h_root_mount = NoMount
    /\ h_last = NoHandle

\* The handler of the other specifications: one crypttab, one root spec.
HandlerFixed ==
    /\ h_enc = <<[name |-> "c1", identifier |-> IdUuid("u2")]>>
    /\ h_root = IdUuid("u1")
    /\ h_root_mount = NoMount
    /\ h_last = NoHandle

HandlerNext ==
    \E path \in Devices : \E env \in HandleEnvs(h_root, path) : HandleDevice(path, env)

(***************************************************************************)
(* The orchestrator: initrz() and main() of main.rs, the listener thread   *)
(* (seen from the channel: it sends device paths) and the handler thread   *)
(* running DeviceHandler::listen.                                          *)
(***************************************************************************)
\* `let timeout = Duration::new(3, 0)` of DeviceHandler::listen.
TimeoutSecs == 3

\* The statements of initrz() in order; each but the loop is one step.
MainSteps ==
    <<"init_logger", "open_root", "mount_special", "parse_cmdline",
      "init_objects", "load_virtio", "probe_blkid", "create_channels",
      "unlock_available", "search_root", "spawn_listener", "spawn_handler",
      "sys_walk", "result_loop", "chdir_new_root", "move_root_mount",
      "chroot", "chdir_root", "exec_init">>

StepIndex(step) == CHOOSE i \in 1..Len(MainSteps) : MainSteps[i] = step

StepAfter(step) == MainSteps[StepIndex(step) + 1]

\* The steps that are a call followed by `?` and touch nothing of the model.
PlainSteps ==
    {"init_logger", "open_root", "mount_special", "parse_cmdline",
     "init_objects", "load_virtio", "unlock_available", "sys_walk",
     "chdir_new_root", "chroot", "chdir_root"}

\* The states in which PID 1 has stopped running this program.
MainEnded == {"init_running", "rescue_shell", "returned"}

\* The device paths the listener sends in this specification.
BootDevices == {"/dev/sda1", "/dev/sdb"}

\* What the blkid cache can hold when main probes it.
BootCaches == {{}, {"/dev/sda1"}, {"/dev/sdb"}}

\* initrz() returns Err from `step`: main() logs it and execs the shell.
Fail(step) ==
    /\ m_err' = step
    /\ m_pc' = "exec_ash"

PlainStep(ok) ==
    /\ m_pc \in PlainSteps
    /\ IF ok THEN m_pc' = StepAfter(m_pc) /\ m_err' = m_err ELSE Fail(m_pc)
    /\ UNCHANGED <<m_tried, b_cache, b_events, b_mounts, b_handled, dev_chan,
                   res_chan, l_pc, d_pc, d_exit, waited>>
    /\ UNCHANGED <<loaderVars, ueventVars, handlerVars, newcVars, buildVars, parseVars, aliasVars, formatVars, lockVars, outVars>>

\* cache.probe_all()?; cache.probe_all_removable()?
ProbeBlkid(ok, cache) ==
    /\ m_pc = "probe_blkid"
    /\ IF ok THEN m_pc' = StepAfter(m_pc) /\ m_err' = m_err /\ b_cache' = cache
       ELSE Fail(m_pc) /\ b_cache' = b_cache
    /\ UNCHANGED <<m_tried, b_events, b_mounts, b_handled, dev_chan,
                   res_chan, l_pc, d_pc, d_exit, waited>>
    /\ UNCHANGED <<loaderVars, ueventVars, handlerVars, newcVars, buildVars, parseVars, aliasVars, formatVars, lockVars, outVars>>

CreateChannels ==
    /\ m_pc = "create_channels"
    /\ m_pc' = StepAfter(m_pc)
    /\ dev_chan' = <<>>
    /\ res_chan' = <<>>
    /\ UNCHANGED <<m_err, m_tried, b_cache, b_events, b_mounts, b_handled,
                   l_pc, d_pc, d_exit, waited>>
    /\ UNCHANGED <<loaderVars, ueventVars, handlerVars, newcVars, buildVars, parseVars, aliasVars, formatVars, lockVars, outVars>>

\* The match of search_root: the device's UUID tag for a Uuid root spec,
\* its name for a Path one.
MatchesRoot(d) ==
    IF h_root.kind = "Uuid" THEN Blkid[d].uuid = h_root.val ELSE d = h_root.val

\* The devices of the cache that match the root spec in search_root.
SearchRootHits == {d \in b_cache : MatchesRoot(d)}

\* guard.search_root()?: walk the cache (device.devname()? can fail) and
\* mount_root the first device that matches; the bool it returns is dropped.
SearchRoot(ok) ==
    /\ m_pc = "search_root"
    /\ IF b_cache # {} /\ ~ok
       THEN /\ Fail(m_pc)
            /\ UNCHANGED <<h_root_mount, b_mounts>>
       ELSE IF SearchRootHits = {}
       THEN /\ m_pc' = StepAfter(m_pc)
            /\ UNCHANGED <<m_err, h_root_mount, b_mounts>>
       ELSE /\ m_pc' = StepAfter(m_pc)
            /\ h_root_mount' = CHOOSE d \in SearchRootHits : TRUE
            /\ b_mounts' = b_mounts + 1
            /\ m_err' = m_err
    /\ UNCHANGED <<m_tried, b_cache, b_events, b_handled, dev_chan,
                   res_chan, l_pc, d_pc, d_exit, waited>>
    /\ UNCHANGED <<h_enc, h_root, h_last>>
    /\ UNCHANGED <<loaderVars, ueventVars, newcVars, buildVars, parseVars, aliasVars, formatVars, lockVars, outVars>>

SpawnListener ==
    /\ m_pc = "spawn_listener"
    /\ m_pc' = StepAfter(m_pc)
    /\ l_pc' = "running"
    /\ UNCHANGED <<m_err, m_tried, b_cache, b_events, b_mounts, b_handled,
                   dev_chan, res_chan, d_pc, d_exit, waited>>
    /\ UNCHANGED <<loaderVars, ueventVars, handlerVars, newcVars, buildVars, parseVars, aliasVars, formatVars, lockVars, outVars>>

SpawnHandler ==
    /\ m_pc = "spawn_handler"
    /\ m_pc' = StepAfter(m_pc)
    /\ d_pc' = "recv"
    /\ waited' = 0
    /\ UNCHANGED <<m_err, m_tried, b_cache, b_events, b_mounts, b_handled,
                   dev_chan, res_chan, l_pc, d_exit>>
    /\ UNCHANGED <<loaderVars, ueventVars, handlerVars, newcVars, buildVars, parseVars, aliasVars, formatVars, lockVars, outVars>>

\* res_rx.try_recv() returned a result: `res.unwrap()?`.
MainRecvResult ==
    /\ m_pc = "result_loop"
    /\ res_chan # <<>>
    /\ res_chan' = Tail(res_chan)
    /\ IF Head(res_chan) = "Err" THEN Fail(m_pc)
       ELSE UNCHANGED <<m_pc, m_err>>
    /\ UNCHANGED <<m_tried, b_cache, b_events, b_mounts, b_handled, dev_chan,
                   l_pc, d_pc, d_exit, waited>>
    /\ UNCHANGED <<loaderVars, ueventVars, handlerVars, newcVars, buildVars, parseVars, aliasVars, formatVars, lockVars, outVars>>

\* Whether try_recv reports Disconnected: no result is queued and res_tx
\* was dropped (Empty, the other error, is a turn of the loop that changes
\* nothing).
Disconnected == res_chan = <<>> /\ d_pc = "done"

MainLoopEnd ==
    /\ m_pc = "result_loop"
    /\ Disconnected
    /\ m_pc' = StepAfter(m_pc)
    /\ UNCHANGED <<m_err, m_tried, b_cache, b_events, b_mounts, b_handled,
                   dev_chan, res_chan, l_pc, d_pc, d_exit, waited>>
    /\ UNCHANGED <<loaderVars, ueventVars, handlerVars, newcVars, buildVars, parseVars, aliasVars, formatVars, lockVars, outVars>>

\* move_root_mount: bail when root_mount is None, else move_mount(..)?.
MoveRootMountOk(ok) == h_root_mount # NoMount /\ ok

MoveRootMount(ok) ==
    /\ m_pc = "move_root_mount"
    /\ IF MoveRootMountOk(ok) THEN m_pc' = StepAfter(m_pc) /\ m_err' = m_err
       ELSE Fail(m_pc)
    /\ UNCHANGED <<m_tried, b_cache, b_events, b_mounts, b_handled, dev_chan,
                   res_chan, l_pc, d_pc, d_exit, waited>>
    /\ UNCHANGED <<loaderVars, ueventVars, handlerVars, newcVars, buildVars, parseVars, aliasVars, formatVars, lockVars, outVars>>

\* Command::new("/sbin/init").exec(); Ok(()): exec returns only when it
\* failed, its error is dropped and main() returns.
ExecInit(ok) ==
    /\ m_pc = "exec_init"
    /\ m_tried' = m_tried \cup {"/sbin/init"}
    /\ m_pc' = IF ok THEN "init_running" ELSE "returned"
    /\ UNCHANGED <<m_err, b_cache, b_events, b_mounts, b_handled, dev_chan,
                   res_chan, l_pc, d_pc, d_exit, waited>>
    /\ UNCHANGED <<loaderVars, ueventVars, handlerVars, newcVars, buildVars, parseVars, aliasVars, formatVars, lockVars, outVars>>

\* main(): error!(..); Command::new("ash").exec();
ExecAsh(ok) ==
    /\ m_pc = "exec_ash"
    /\ m_tried' = m_tried \cup {"ash"}
    /\ m_pc' = IF ok THEN "rescue_shell" ELSE "returned"
    /\ UNCHANGED <<m_err, b_cache, b_events, b_mounts, b_handled, dev_chan,
                   res_chan, l_pc, d_pc, d_exit, waited>>
    /\ UNCHANGED <<loaderVars, ueventVars, handlerVars, newcVars, buildVars, parseVars, aliasVars, formatVars, lockVars, outVars>>

\* The listener thread sends a device path; the send fails, and the thread
\* ends, once device_rx was dropped at the end of DeviceHandler::listen.
Emit(path) ==
    /\ l_pc = "running"
    /\ m_pc \notin MainEnded
    /\ Len(b_events) < MaxEvents
    /\ IF d_pc = "done"
       THEN l_pc' = "stopped" /\ UNCHANGED <<dev_chan, b_events>>
       ELSE /\ dev_chan' = Append(dev_chan, path)
            /\ b_events' = Append(b_events, path)
            /\ l_pc' = l_pc
    /\ UNCHANGED <<m_pc, m_err, m_tried, b_cache, b_mounts, b_handled,
                   res_chan, d_pc, d_exit, waited>>
    /\ UNCHANGED <<loaderVars, ueventVars, handlerVars, newcVars, buildVars, parseVars, aliasVars, formatVars, lockVars, outVars>>

\* Whether main still holds res_rx: it is dropped when initrz() returns.
ResRxOpen == m_pc \notin {"exec_ash"} \cup MainEnded

\* DeviceHandler::listen got a path: handle it and send the Result to main;
\* a failed send breaks the loop.
HandlerHandle(env) ==
    /\ d_pc = "recv"
    /\ m_pc \notin MainEnded
    /\ dev_chan # <<>>
    /\ dev_chan' = Tail(dev_chan)
    /\ LET path == Head(dev_chan)
           h == Handle(h_enc, h_root, h_root_mount, path, env)
           mounted == h.res = "Ok" /\ h.ops[Len(h.ops)][1] = "mount_root"
       IN
       /\ h_last' = [path |-> path, ops |-> h.ops, res |-> h.res]
       /\ h_root_mount' = h.root_mount
       /\ b_mounts' = IF mounted THEN b_mounts + 1 ELSE b_mounts
       /\ IF ResRxOpen
          THEN res_chan' = Append(res_chan, h.res) /\ UNCHANGED <<d_pc, d_exit>>
          ELSE res_chan' = res_chan /\ d_pc' = "done" /\ d_exit' = "send_failed"
    /\ b_handled' = b_handled + 1
    /\ waited' = 0
    /\ UNCHANGED <<m_pc, m_err, m_tried, b_cache, b_events, l_pc>>
    /\ UNCHANGED <<h_enc, h_root>>
    /\ UNCHANGED <<loaderVars, ueventVars, newcVars, buildVars, parseVars, aliasVars, formatVars, lockVars, outVars>>

\* A second passes while recv_timeout waits on the empty channel.
Tick ==
    /\ d_pc = "recv"
    /\ m_pc \notin MainEnded
    /\ dev_chan = <<>>
    /\ waited < TimeoutSecs
    /\ waited' = waited + 1
    /\ UNCHANGED <<m_pc, m_err, m_tried, b_cache, b_events, b_mounts,
                   b_handled, dev_chan, res_chan, l_pc, d_pc, d_exit>>
    /\ UNCHANGED <<loaderVars, ueventVars, handlerVars, newcVars, buildVars, parseVars, aliasVars, formatVars, lockVars, outVars>>

\* Whether recv_timeout gives up after waiting w seconds.
TimedOutAtOnce(w) == TRUE

TimedOut(w) == w >= TimeoutSecs

\* recv_timeout returned Err (nothing arrived in time, or device_tx is
\* gone): `break`, which drops device_rx and res_tx.
HandlerTimeout ==
    /\ d_pc = "recv"
    /\ m_pc \notin MainEnded
    /\ dev_chan = <<>>
    /\ TimedOut(waited) \/ l_pc = "stopped"
    /\ d_pc' = "done"
    /\ d_exit' = IF l_pc = "stopped" THEN "disconnected" ELSE "timeout"
    /\ UNCHANGED <<m_pc, m_err, m_tried, b_cache, b_events, b_mounts,
                   b_handled, dev_chan, res_chan, l_pc, waited>>
    /\ UNCHANGED <<loaderVars, ueventVars, handlerVars, newcVars, buildVars, parseVars, aliasVars, formatVars, lockVars, outVars>>

BootInit ==
    /\ m_pc = "init_logger"
    /\ m_err = ""
    /\ m_tried = {}
    /\ b_cache = {}
    /\ b_events = <<>>
    /\ b_mounts = 0
    /\ b_handled = 0
    /\ dev_chan = <<>>
    /\ res_chan = <<>>
    /\ l_pc = "unborn"
    /\ d_pc = "unborn"
    /\ d_exit = ""
    /\ waited = 0

BootNext ==
    \/ \E ok \in BOOLEAN : PlainStep(ok)
    \/ \E ok \in BOOLEAN : \E cache \in BootCaches : ProbeBlkid(ok, cache)
    \/ CreateChannels
    \/ \E ok \in BOOLEAN : SearchRoot(ok)
    \/ SpawnListener
    \/ SpawnHandler
    \/ MainRecvResult
    \/ MainLoopEnd
    \/ \E ok \in BOOLEAN : MoveRootMount(ok)
    \/ \E ok \in BOOLEAN : ExecInit(ok)
    \/ \E ok \in BOOLEAN : ExecAsh(ok)
    \/ \E path \in BootDevices : Emit(path)
    \/ \E env \in HandleEnvs(h_root, "") : HandlerHandle(env)
    \/ Tick
    \/ HandlerTimeout

(***************************************************************************)
(* mkinitrz's cpio writer: newc.rs.  A byte is a one-character string,     *)
(* the zero byte is NUL.  A u32/u64 field of an entry is held as its       *)
(* hexadecimal numeral (most significant digit first, no leading zero),    *)
(* so that a value of any width can be formatted as the code formats it.   *)
(***************************************************************************)
MAGIC == <<"0", "7", "0", "7", "0", "1">>

TRAILER == <<"T", "R", "A", "I", "L", "E", "R", "!", "!", "!">>

INO_OFFSET == 1337

NUL == "NUL"

HexDigits ==
    <<"0", "1", "2", "3", "4", "5", "6", "7", "8", "9", "a", "b", "c", "d", "e", "f">>

\* The numeral `{:x}` prints for n.
RECURSIVE Hex(_)
Hex(n) ==
    IF n < 16 THEN <<HexDigits[n + 1]>>
    ELSE Hex(n \div 16) \o <<HexDigits[(n % 16) + 1]>>

Zeros(k) == [i \in 1..k |-> "0"]

\* write!(buf, "{:08x}", v): padded with zeros to 8 characters, and longer
\* when the numeral is.
Fmt08x(numeral) ==
    IF Len(numeral) >= 8 THEN numeral ELSE Zeros(8 - Len(numeral)) \o numeral

\* pad_buf: zero bytes up to the next multiple of 4 of the whole buffer.
PadBuf(buf) ==
    LET rem == Len(buf) % 4 IN
    IF rem # 0 THEN buf \o [i \in 1..(4 - rem) |-> NUL] ELSE buf

NoData == [some |-> FALSE, bytes |-> <<>>]

SomeData(bytes) == [some |-> TRUE, bytes |-> bytes]

\* Entry::new / Entry::with_data and the setters of EntryBuilder; uid, gid,
\* nlink, dev_major and dev_minor have no setter and stay 0.
NewEntry(name, ino, mode, mtime, rdev_major, rdev_minor, data) ==
    [name |-> name, ino |-> ino, mode |-> mode, mtime |-> mtime,
     rdev_major |-> rdev_major, rdev_minor |-> rdev_minor, data |-> data]

\* EntryBuilder::trailer().build()
TrailerEntry == NewEntry(TRAILER, 0, Hex(0), Hex(0), Hex(0), Hex(0), NoData)

\* EntryName::into_bytes_with_nul: CString::new fails on an interior zero byte.
NameFails(entry) == \E i \in 1..Len(entry.name) : entry.name[i] = NUL

\* Entry::write for an entry whose name converts: buf afterwards.
Write(entry, buf) ==
    LET file_size == IF entry.data.some THEN Len(entry.data.bytes) ELSE 0
        filename == entry.name \o <<NUL>>
        named == PadBuf(buf \o MAGIC
                     \o Fmt08x(Hex(entry.ino))
                     \o Fmt08x(entry.mode)
                     \o Fmt08x(Hex(0))
                     \o Fmt08x(Hex(0))
                     \o Fmt08x(Hex(0))
                     \o Fmt08x(entry.mtime)
                     \o Fmt08x(Hex(file_size))
                     \o Fmt08x(Hex(0))
                     \o Fmt08x(Hex(0))
                     \o Fmt08x(entry.rdev_major)
                     \o Fmt08x(entry.rdev_minor)
                     \o Fmt08x(Hex(Len(filename)))
                     \o Fmt08x(Hex(0))
                     \o filename)
    IN IF entry.data.some THEN PadBuf(named \o entry.data.bytes) ELSE named

\* The entries the archives of this specification are made of: a file, a
\* directory, a device node, a file whose header and data need no padding,
\* a name with a zero byte in it, and a file from after the year 2106.
EntryPool ==
    {NewEntry(<<"a">>, 0, Hex(33188), Hex(5), Hex(0), Hex(0), SomeData(<<"h", "i">>)),
     NewEntry(<<"b", "c">>, 7, Hex(16877), Hex(6), Hex(0), Hex(0), NoData),
     NewEntry(<<"t", "t", "y">>, 1337, Hex(8630), Hex(0), Hex(5), Hex(1), NoData),
     NewEntry(<<"l", "i", "b", "/", "x">>, 1, Hex(33261), Hex(0), Hex(0), Hex(0),
              SomeData(<<"d", "a", "t", "a">>)),
     NewEntry(<<"n", NUL>>, 0, Hex(33188), Hex(0), Hex(0), Hex(0), SomeData(<<>>)),
     NewEntry(<<"z">>, 0, Hex(33188), <<"1">> \o Zeros(8), Hex(0), Hex(0),
              SomeData(<<"y">>))}

EntryLists == UNION {[1..n -> EntryPool] : n \in 0..MaxEntries}

\* into_bytes: entry.ino = INO_OFFSET + index
InoKept(index, entry) == entry.ino

InoFor(index, entry) == INO_OFFSET + index

\* One turn of the loop of into_bytes: renumber the entry and write it; the
\* `?` returns the error of a name that does not convert.
WriteNext ==
    /\ n_pc = "loop"
    /\ n_idx < Len(n_entries)
    /\ LET entry == [n_entries[n_idx + 1] EXCEPT
                        !.ino = InoFor(n_idx, n_entries[n_idx + 1])]
       IN IF NameFails(entry)
          THEN n_pc' = "error" /\ UNCHANGED <<n_buf, n_idx>>
          ELSE /\ n_buf' = Write(entry, n_buf)
               /\ n_idx' = n_idx + 1
               /\ n_pc' = n_pc
    /\ UNCHANGED <<n_entries, r_pos, r_out, r_pc>>
    /\ UNCHANGED <<loaderVars, ueventVars, handlerVars, bootVars, buildVars, parseVars, aliasVars, formatVars, lockVars, outVars>>

\* After the loop: the trailer entry, then Ok(buf).
WriteTrailer ==
    /\ n_pc = "loop"
    /\ n_idx = Len(n_entries)
    /\ n_buf' = Write(TrailerEntry, n_buf)
    /\ n_pc' = "done"
    /\ UNCHANGED <<n_entries, n_idx, r_pos, r_out, r_pc>>
    /\ UNCHANGED <<loaderVars, ueventVars, handlerVars, bootVars, buildVars, parseVars, aliasVars, formatVars, lockVars, outVars>>

(***************************************************************************)
(* A reader of the newc format, for the bytes into_bytes returns: a        *)
(* header of the magic and 13 fields of 8 hexadecimal characters, the name *)
(* with its zero byte, padding to a multiple of 4, the data, padding       *)
(* again; the entry named TRAILER!!! ends the archive.                     *)
(***************************************************************************)
HeaderLen == Len(MAGIC) + 13 * 8

Align4(n) == IF n % 4 = 0 THEN n ELSE n + (4 - (n % 4))

IsHex(c) == \E i \in 1..16 : HexDigits[i] = c

DigitVal(c) == (CHOOSE i \in 1..16 : HexDigits[i] = c) - 1

\* The numeral without its leading zeros.
RECURSIVE Strip(_)
Strip(numeral) ==
    IF Len(numeral) > 1 /\ Head(numeral) = "0" THEN Strip(Tail(numeral))
    ELSE numeral

RECURSIVE Val(_)
Val(numeral) ==
    IF numeral = <<>> THEN 0
    ELSE 16 * Val(SubSeq(numeral, 1, Len(numeral) - 1))
         + DigitVal(numeral[Len(numeral)])

\* The k-th field of the header at offset p.
Field(buf, p, k) ==
    SubSeq(buf, p + Len(MAGIC) + 8 * (k - 1) + 1, p + Len(MAGIC) + 8 * k)

\* A size field the reader can use: one no larger than the archive.
Usable(buf, field) ==
    /\ Len(Strip(field)) <= 4
    /\ Val(Strip(field)) <= Len(buf)

\* The entry at offset p and the offset of the one after it.
ReadAt(buf, p) ==
    IF p + HeaderLen > Len(buf) THEN [ok |-> FALSE]
    ELSE IF SubSeq(buf, p + 1, p + Len(MAGIC)) # MAGIC THEN [ok |-> FALSE]
    ELSE IF \E i \in (p + Len(MAGIC) + 1)..(p + HeaderLen) : ~IsHex(buf[i])
    THEN [ok |-> FALSE]
    ELSE IF ~Usable(buf, Field(buf, p, 7)) \/ ~Usable(buf, Field(buf, p, 12))
    THEN [ok |-> FALSE]
    ELSE
    LET filesize == Val(Strip(Field(buf, p, 7)))
        namesize == Val(Strip(Field(buf, p, 12)))
        datapos == Align4(p + HeaderLen + namesize)
        next == Align4(datapos + filesize)
    IN IF namesize < 1 \/ datapos + filesize > Len(buf) \/ next > Len(buf)
       THEN [ok |-> FALSE]
       ELSE IF buf[p + HeaderLen + namesize] # NUL THEN [ok |-> FALSE]
       ELSE [ok |-> TRUE,
             next |-> next,
             entry |-> [name |-> SubSeq(buf, p + HeaderLen + 1,
                                        p + HeaderLen + namesize - 1),
                        ino |-> Strip(Field(buf, p, 1)),
                        mode |-> Strip(Field(buf, p, 2)),
                        mtime |-> Strip(Field(buf, p, 6)),
                        rdev_major |-> Strip(Field(buf, p, 10)),
                        rdev_minor |-> Strip(Field(buf, p, 11)),
                        data |-> SubSeq(buf, datapos + 1, datapos + filesize)]]

\* The reader takes the next entry of the bytes into_bytes returned.
ReadEntry ==
    /\ n_pc = "done"
    /\ r_pc = "read"
    /\ LET r == ReadAt(n_buf, r_pos) IN
       IF ~r.ok
       THEN r_pc' = "bad" /\ UNCHANGED <<r_pos, r_out>>
       ELSE IF r.entry.name = TRAILER
       THEN r_pc' = "end" /\ r_pos' = r.next /\ r_out' = r_out
       ELSE r_pc' = r_pc /\ r_pos' = r.next /\ r_out' = Append(r_out, r.entry)
    /\ UNCHANGED <<n_entries, n_idx, n_buf, n_pc>>
    /\ UNCHANGED <<loaderVars, ueventVars, handlerVars, bootVars, buildVars, parseVars, aliasVars, formatVars, lockVars, outVars>>

NewcInit ==
    /\ n_entries \in EntryLists
    /\ n_idx = 0
    /\ n_buf = <<>>
    /\ n_pc = "loop"
    /\ r_pos = 0
    /\ r_out = <<>>
    /\ r_pc = "read"

\* The other specifications serialize nothing.
NewcIdle ==
    /\ n_entries = <<>>
    /\ n_idx = 0
    /\ n_buf = <<>>
    /\ n_pc = "idle"
    /\ r_pos = 0
    /\ r_out = <<>>
    /\ r_pc = "read"

NewcNext ==
    \/ WriteNext
    \/ WriteTrailer
    \/ ReadEntry

(***************************************************************************)
(* mkinitrz's image builder: initramfs.rs and initramfs_modules.rs.  A     *)
(* path is the sequence of its components; an absolute path and the entry  *)
(* name made of it (the path without its leading '/') are the same         *)
(* sequence, the root directory the empty one.                             *)
(***************************************************************************)
RootDir == <<>>

Parent(path) == SubSeq(path, 1, Len(path) - 1)

ROOT_DIRECTORIES ==
    <<<<"dev">>, <<"etc">>, <<"new_root">>, <<"proc">>, <<"run">>, <<"sys">>,
      <<"usr">>, <<"usr", "bin">>, <<"usr", "lib">>>>

ROOT_SYMLINKS ==
    <<<<"bin">>, <<"lib">>, <<"lib64">>, <<"sbin">>, <<"usr", "lib64">>,
      <<"usr", "sbin">>>>

\* add_library's PATHS
LibraryPaths ==
    <<<<"usr", "lib64">>, <<"usr", "lib">>, <<"lib64">>, <<"lib">>,
      <<"usr", "local", "lib">>>>

InitrzExe == <<"target", "release", "initrz">>
InitPath == <<"init">>
Vgchange == <<"sbin", "vgchange">>
Vgmknodes == <<"sbin", "vgmknodes">>
Busybox == <<"bin", "busybox">>
LdConf == <<"etc", "ld.so.conf">>
Crypttab == <<"etc", "crypttab.initramfs">>
KRoot == <<"usr", "lib", "modules", "6.1">>
Lvm == <<"usr", "bin", "lvm">>
SbinLvm == <<"sbin", "lvm">>
LibC == <<"usr", "lib", "libc.so">>
LibDm == <<"usr", "lib64", "libdm.so">>
LibDm1 == <<"usr", "lib64", "libdm.so.1">>
LibZ == <<"usr", "lib", "libz.so">>

\* "/lib/modules" joined with the file's path below kroot.parent()
ModulesTarget(file) ==
    <<"lib", "modules">> \o SubSeq(file, Len(Parent(KRoot)) + 1, Len(file))

\* The lines of modules.dep a host can have: (module name, path left of
\* the colon).
ModulePool ==
    {[name |-> "ext4", path |-> <<"kernel", "fs", "ext4.ko">>],
     [name |-> "snd", path |-> <<"kernel", "sound", "snd.ko">>],
     [name |-> "vbox", path |-> <<"extra", "vbox.ko">>]}

\* The ELF files of the hosts, and the DT_NEEDED names each of them has
\* on the hosts of a build.
ElfFiles ==
    {InitrzExe, Vgchange, SbinLvm, Lvm, Vgmknodes, Busybox, LibC, LibDm1, LibZ}

Needed ==
    [f \in ElfFiles |->
        CASE f = InitrzExe -> <<"libc.so">>
          [] f \in {Vgchange, SbinLvm, Lvm} -> <<"libdm.so", "libc.so">>
          [] f = Vgmknodes -> <<"libdm.so">>
          [] f = LibDm1 -> <<"libc.so">>
          [] OTHER -> <<>>]

\* The hosts of this specification.  vgchange is an ELF file ("elf"), a
\* symlink to the relative lvm ("link"), or a symlink to /etc/ld.so.conf,
\* itself a symlink to the ELF file /usr/bin/lvm ("link_ldconf").
Hosts ==
    [initrz : BOOLEAN,
     vgchange : {"elf", "link", "link_ldconf"},
     crypttab : BOOLEAN,
     type : {"Host", "General"},
     additional : {{}, {"snd"}},
     moddep : UNION {[1..n -> ModulePool] : n \in 0..MaxModules},
     needed : {Needed}]

NoHost ==
    [initrz |-> TRUE, vgchange |-> "elf", crypttab |-> FALSE, type |-> "General",
     additional |-> {}, moddep |-> <<>>, needed |-> Needed]

\* /proc/modules of the hosts
HostModules == {"ext4"}

IsModuleFile(h, p) ==
    \E i \in 1..Len(h.moddep) : p = KRoot \o h.moddep[i].path

\* What lstat says of a path of the host.
Kind(h, p) ==
    CASE p = InitrzExe -> IF h.initrz THEN "file" ELSE "missing"
      [] p = Vgchange -> IF h.vgchange = "elf" THEN "file" ELSE "symlink"
      [] p = SbinLvm -> IF h.vgchange = "link" THEN "file" ELSE "missing"
      [] p = LdConf -> IF h.vgchange = "link_ldconf" THEN "symlink" ELSE "file"
      [] p = Lvm -> IF h.vgchange = "link_ldconf" THEN "file" ELSE "missing"
      [] p = Crypttab -> IF h.crypttab THEN "file" ELSE "missing"
      [] p = LibDm -> "symlink"
      [] p \in {Vgmknodes, Busybox, LibC, LibDm1, LibZ} -> "file"
      [] p \in {KRoot \o <<"modules.dep">>, KRoot \o <<"modules.alias">>} -> "file"
      [] OTHER -> IF IsModuleFile(h, p) THEN "file" ELSE "missing"

\* read_link of a symlink of the host: absolute or relative.
ReadLink(h, p) ==
    CASE p = Vgchange ->
            IF h.vgchange = "link" THEN [absolute |-> FALSE, path |-> <<"lvm">>]
            ELSE [absolute |-> TRUE, path |-> LdConf]
      [] p = LdConf -> [absolute |-> TRUE, path |-> Lvm]
      [] OTHER -> [absolute |-> FALSE, path |-> <<"libdm.so.1">>]

\* The file a path leads to through symlinks.
RECURSIVE Final(_, _)
Final(h, p) ==
    IF Kind(h, p) # "symlink" THEN p
    ELSE LET l == ReadLink(h, p) IN
         Final(h, IF l.absolute THEN l.path ELSE Parent(p) \o l.path)

\* Path::exists
Exists(h, p) == Kind(h, Final(h, p)) # "missing"

\* depend::resolve: the libraries an ELF file needs; an error for others.
IsElf(h, p) == Final(h, p) \in ElfFiles

\* A resolve that reads the path itself and takes a symlink for a file
\* that needs nothing.
ResolveUnfollowed(h, p) == IF p \in ElfFiles THEN h.needed[p] ELSE <<>>

Resolve(h, p) == h.needed[Final(h, p)]

\* The call of depend::resolve on `path`, noted in the builder's state.
Resolved(st, path) == [st EXCEPT !.resolved = Append(@, path)]

\* add_entry: insert the path into files and push the entry, unguarded.
AddEntry(st, path, kind) ==
    [st EXCEPT !.entries = Append(@, [name |-> path, kind |-> kind]),
               !.files = @ \cup {path}]

\* An add_directory that adds the directory without its parents.
AddDirectoryAlone(st, dir) ==
    IF dir \in st.files THEN st ELSE AddEntry(st, dir, "dir")

\* add_directory: nothing for a path in files; else the parent first.
RECURSIVE AddDirectory(_, _)
AddDirectory(st, dir) ==
    IF dir \in st.files THEN st
    ELSE AddEntry(IF dir # RootDir THEN AddDirectory(st, Parent(dir)) ELSE st,
                  dir, "dir")

\* add_file_with_path: res is "true" or "false" for Ok(bool), "err" for Err.
AddFilePresent(st, path) == path \in st.files

RECURSIVE AddFileWithPath(_, _, _, _)
AddFileWithPath(h, st, file, path) ==
    IF ~Exists(h, file) THEN [st |-> st, res |-> "err"]
    ELSE IF AddFilePresent(st, path) THEN [st |-> st, res |-> "false"]
    ELSE IF Kind(h, file) = "symlink"
    THEN IF Kind(h, path) # "symlink" THEN [st |-> st, res |-> "err"]
         ELSE LET l == ReadLink(h, path)
                  pointed == IF l.absolute THEN l.path ELSE Parent(path) \o l.path
                  linked == AddEntry(AddDirectory(st, Parent(path)), path, "symlink")
                  r == AddFileWithPath(h, linked, pointed, pointed)
              IN [st |-> r.st, res |-> IF r.res = "err" THEN "err" ELSE "true"]
    ELSE [st |-> AddEntry(AddDirectory(st, Parent(path)), path, "file"),
          res |-> "true"]

\* add_library, and the try_for_each over the libraries of a file.
RECURSIVE AddLibrary(_, _, _)
RECURSIVE AddLibraries(_, _, _)
AddLibrary(h, st, lib) ==
    LET found == {i \in 1..Len(LibraryPaths) : Exists(h, LibraryPaths[i] \o <<lib>>)}
    IN IF found = {} THEN [st |-> st, res |-> "err"]
       ELSE LET full_path == LibraryPaths[CHOOSE i \in found : \A j \in found : i <= j]
                                \o <<lib>>
                r == AddFileWithPath(h, st, full_path, full_path)
            IN IF r.res = "err" THEN r
               ELSE IF r.res = "false" THEN [st |-> r.st, res |-> "ok"]
               ELSE IF ~IsElf(h, full_path) THEN [st |-> r.st, res |-> "err"]
               ELSE AddLibraries(h, Resolved(r.st, full_path), Resolve(h, full_path))

AddLibraries(h, st, libs) ==
    IF libs = <<>> THEN [st |-> st, res |-> "ok"]
    ELSE LET r == AddLibrary(h, st, Head(libs)) IN
         IF r.res = "err" THEN r ELSE AddLibraries(h, r.st, Tail(libs))

\* add_elf_with_path
AddElfWithPath(h, st, exe, path) ==
    LET r == AddFileWithPath(h, st, exe, path) IN
    IF r.res = "err" THEN r
    ELSE IF r.res = "false" THEN [st |-> r.st, res |-> "ok"]
    ELSE IF ~IsElf(h, exe) THEN [st |-> r.st, res |-> "err"]
    ELSE AddLibraries(h, Resolved(r.st, exe), Resolve(h, exe))

\* new_basic_structure: the directories, then the symlinks.
RECURSIVE Skeleton(_, _, _)
Skeleton(st, paths, kind) ==
    IF paths = <<>> THEN st
    ELSE Skeleton(AddEntry(st, Head(paths), kind), Tail(paths), kind)

\* The statements of Initramfs::new in order.
BuildSteps ==
    <<"basic", "init", "vgchange", "vgmknodes", "busybox", "ld_conf",
      "modules_dep", "modules_alias", "get_modules", "add_modules", "done">>

BuildStepAfter(step) ==
    BuildSteps[(CHOOSE i \in 1..Len(BuildSteps) : BuildSteps[i] = step) + 1]

BuildState ==
    [entries |-> g_entries, files |-> g_files, resolved |-> g_resolved]

NoAdd == [path |-> RootDir, present |-> FALSE, ret |-> "none"]

\* The outcome r of the add of `path` at the statement g_pc: an error makes
\* new() return it.
Built(r, path) ==
    /\ g_entries' = r.st.entries
    /\ g_files' = r.st.files
    /\ g_resolved' = r.st.resolved
    /\ g_last' = [path |-> path, present |-> path \in g_files, ret |-> r.res]
    /\ g_pc' = IF r.res = "err" THEN "failed" ELSE BuildStepAfter(g_pc)

BasicStructure ==
    /\ g_pc = "basic"
    /\ LET st == Skeleton(Skeleton(BuildState, ROOT_DIRECTORIES, "dir"),
                          ROOT_SYMLINKS, "symlink")
       IN g_entries' = st.entries /\ g_files' = st.files
    /\ g_pc' = BuildStepAfter(g_pc)
    /\ UNCHANGED <<g_host, g_last, gm_order, g_modules, g_mi, g_resolved>>
    /\ UNCHANGED <<loaderVars, ueventVars, handlerVars, bootVars, newcVars, parseVars, aliasVars, formatVars, lockVars, outVars>>

\* ensure!(initrz.exists()); add_elf_with_path(&initrz, "/init")
AddInit ==
    /\ g_pc = "init"
    /\ Built(AddElfWithPath(g_host, BuildState, InitrzExe, InitPath), InitPath)
    /\ UNCHANGED <<g_host, gm_order, g_modules, g_mi>>
    /\ UNCHANGED <<loaderVars, ueventVars, handlerVars, bootVars, newcVars, parseVars, aliasVars, formatVars, lockVars, outVars>>

ElfOf(step) ==
    CASE step = "vgchange" -> Vgchange
      [] step = "vgmknodes" -> Vgmknodes
      [] step = "busybox" -> Busybox

\* add_elf of /sbin/vgchange, /sbin/vgmknodes, /bin/busybox
AddElf ==
    /\ g_pc \in {"vgchange", "vgmknodes", "busybox"}
    /\ Built(AddElfWithPath(g_host, BuildState, ElfOf(g_pc), ElfOf(g_pc)),
             ElfOf(g_pc))
    /\ UNCHANGED <<g_host, gm_order, g_modules, g_mi>>
    /\ UNCHANGED <<loaderVars, ueventVars, handlerVars, bootVars, newcVars, parseVars, aliasVars, formatVars, lockVars, outVars>>

\* add_entry(ld_conf, EntryBuilder::file(ld_conf, ..).build())
AddLdConf ==
    /\ g_pc = "ld_conf"
    /\ IF Exists(g_host, LdConf)
       THEN Built([st |-> AddEntry(BuildState, LdConf, "file"), res |-> "unit"],
                  LdConf)
       ELSE Built([st |-> BuildState, res |-> "err"], LdConf)
    /\ UNCHANGED <<g_host, gm_order, g_modules, g_mi>>
    /\ UNCHANGED <<loaderVars, ueventVars, handlerVars, bootVars, newcVars, parseVars, aliasVars, formatVars, lockVars, outVars>>

\* add_file_with_path of modules.dep and modules.alias
AddModulesFile ==
    /\ g_pc \in {"modules_dep", "modules_alias"}
    /\ LET file == KRoot \o <<IF g_pc = "modules_dep" THEN "modules.dep"
                              ELSE "modules.alias">>
       IN Built(AddFileWithPath(g_host, BuildState, file, ModulesTarget(file)),
                ModulesTarget(file))
    /\ UNCHANGED <<g_host, gm_order, g_modules, g_mi>>
    /\ UNCHANGED <<loaderVars, ueventVars, handlerVars, bootVars, newcVars, parseVars, aliasVars, formatVars, lockVars, outVars>>

\* is_module_needed, on the components of the path: below kernel/, in fs
\* but not fs/nls, in crypto, drivers/md or lib, a dm-crypt or dm-integrity
\* module, or one of the block-device and keyboard directories.
IsModuleNeeded(name, path) ==
    /\ Len(path) >= 2
    /\ path[1] = "kernel"
    /\ \/ path[2] = "fs" /\ ~(Len(path) >= 3 /\ path[3] = "nls")
       \/ path[2] = "crypto"
       \/ name \in {"dm-crypt", "dm-integrity"}
       \/ path[2] = "lib"
       \/ Len(path) >= 3 /\ path[2] = "drivers" /\
          path[3] \in {"md", "block", "scsi", "nvme", "mmc", "virtio", "ata",
                       "firewire", "hid"}

\* The filter closure of get_modules for the profile of the host.
Keep(h, m) ==
    IF h.type = "General"
    THEN IsModuleNeeded(m.name, m.path) \/ m.name \in h.additional
    ELSE (m.name \in HostModules /\ IsModuleNeeded(m.name, m.path))
         \/ m.name \in h.additional

\* par_iter().filter(..): the pool runs the closure on the lines of
\* modules.dep in an order of its own.
FilterTask(i) ==
    /\ g_pc = "get_modules"
    /\ i \in 1..Len(g_host.moddep)
    /\ \A k \in 1..Len(gm_order) : gm_order[k] # i
    /\ gm_order' = Append(gm_order, i)
    /\ UNCHANGED <<g_host, g_pc, g_entries, g_files, g_last, g_modules, g_mi,
                   g_resolved>>
    /\ UNCHANGED <<loaderVars, ueventVars, handlerVars, bootVars, newcVars, parseVars, aliasVars, formatVars, lockVars, outVars>>

\* The indexes kept, in the order the filter finished them.
KeptAsFinished(h, order) == SelectSeq(order, LAMBDA i : Keep(h, h.moddep[i]))

\* .map(..).collect::<Vec<_>>(): the items kept, in the order of the Vec the
\* parallel iterator was made of.
Kept(h, order) ==
    SelectSeq([i \in 1..Len(h.moddep) |-> i], LAMBDA i : Keep(h, h.moddep[i]))

Collect ==
    /\ g_pc = "get_modules"
    /\ Len(gm_order) = Len(g_host.moddep)
    /\ LET kept == Kept(g_host, gm_order) IN
       g_modules' = [k \in 1..Len(kept) |-> KRoot \o g_host.moddep[kept[k]].path]
    /\ g_pc' = BuildStepAfter(g_pc)
    /\ UNCHANGED <<g_host, g_entries, g_files, g_last, gm_order, g_mi, g_resolved>>
    /\ UNCHANGED <<loaderVars, ueventVars, handlerVars, bootVars, newcVars, parseVars, aliasVars, formatVars, lockVars, outVars>>

\* One turn of the try_for_each over the modules.
AddModule ==
    /\ g_pc = "add_modules"
    /\ g_mi < Len(g_modules)
    /\ LET file == g_modules[g_mi + 1]
           r == AddFileWithPath(g_host, BuildState, file, ModulesTarget(file))
       IN /\ g_entries' = r.st.entries
          /\ g_files' = r.st.files
          /\ g_last' = [path |-> ModulesTarget(file),
                        present |-> ModulesTarget(file) \in g_files,
                        ret |-> r.res]
          /\ g_pc' = IF r.res = "err" THEN "failed" ELSE g_pc
    /\ g_mi' = g_mi + 1
    /\ UNCHANGED <<g_host, gm_order, g_modules, g_resolved>>
    /\ UNCHANGED <<loaderVars, ueventVars, handlerVars, bootVars, newcVars, parseVars, aliasVars, formatVars, lockVars, outVars>>

\* match initramfs_type: the crypttab of a Host image; Ok(initramfs).
AddCrypttab ==
    /\ g_pc = "add_modules"
    /\ g_mi = Len(g_modules)
    /\ IF g_host.type = "Host" /\ Exists(g_host, Crypttab)
       THEN Built(AddFileWithPath(g_host, BuildState, Crypttab, Crypttab), Crypttab)
       ELSE /\ g_pc' = BuildStepAfter(g_pc)
            /\ UNCHANGED <<g_entries, g_files, g_last, g_resolved>>
    /\ UNCHANGED <<g_host, gm_order, g_modules, g_mi>>
    /\ UNCHANGED <<loaderVars, ueventVars, handlerVars, bootVars, newcVars, parseVars, aliasVars, formatVars, lockVars, outVars>>

BuildInit ==
    /\ g_host \in Hosts
    /\ g_pc = "basic"
    /\ g_entries = <<>>
    /\ g_files = {}
    /\ g_last = NoAdd
    /\ gm_order = <<>>
    /\ g_modules = <<>>
    /\ g_mi = 0
    /\ g_resolved = <<>>

\* The other specifications build nothing.
BuildIdle ==
    /\ g_host = NoHost
    /\ g_pc = "idle"
    /\ g_entries = <<>>
    /\ g_files = {}
    /\ g_last = NoAdd
    /\ gm_order = <<>>
    /\ g_modules = <<>>
    /\ g_mi = 0
    /\ g_resolved = <<>>

BuildNext ==
    \/ BasicStructure
    \/ AddInit
    \/ AddElf
    \/ AddLdConf
    \/ AddModulesFile
    \/ \E i \in 1..MaxModules : FilterTask(i)
    \/ Collect
    \/ AddModule
    \/ AddCrypttab

(***************************************************************************)
(* The parsers of the init program: parse_module_dep reads modules.dep     *)
(* into the index of modules.  The input is a file of lines, each built    *)
(* from file names whose parts (directory, module name, extension) are     *)
(* known; the parser sees only the rendered text of the line.              *)
(***************************************************************************)
Ext_ko == <<".", "k", "o">>
Ext_ko_xz == <<".", "k", "o", ".", "x", "z">>
Dir_k == <<"k", "/">>

ModFile(dir, name, ext) == [dir |-> dir, name |-> name, ext |-> ext]

\* the text of a module file name as modules.dep prints it
RenderFile(f) == f.dir \o f.name \o f.ext

HeadFiles == {ModFile(<<>>, <<"x">>, Ext_ko), ModFile(Dir_k, <<"y">>, Ext_ko_xz)}

DepFiles ==
    {ModFile(<<>>, <<"a">>, Ext_ko), ModFile(Dir_k, <<"b">>, Ext_ko_xz),
     ModFile(Dir_k, <<"c">>, Ext_ko)}

DepLists == UNION {[1..n -> DepFiles] : n \in 0..MaxDeps}

\* a line "head: dep dep dep", or the head alone when colon is FALSE
DepLine(head, colon, deps) == [head |-> head, colon |-> colon, deps |-> deps]

RECURSIVE RenderDeps(_)
RenderDeps(deps) ==
    IF deps = <<>> THEN <<>>
    ELSE <<" ">> \o RenderFile(Head(deps)) \o RenderDeps(Tail(deps))

RenderLine(l) ==
    RenderFile(l.head)
        \o (IF l.colon THEN <<":">> \o RenderDeps(l.deps) ELSE <<>>)

\* the lines that may follow the first one: a module without dependencies
\* and a line that lacks the colon
SecondLines ==
    {DepLine(ModFile(Dir_k, <<"z">>, Ext_ko_xz), TRUE, <<>>),
     DepLine(ModFile(Dir_k, <<"z">>, Ext_ko_xz), FALSE, <<>>)}

\* the malformed lines of modules.dep: an empty line and a line without
\* the colon
MalformedDepLines ==
    {DepLine(ModFile(<<>>, <<>>, <<>>), FALSE, <<>>),
     DepLine(ModFile(Dir_k, <<"z">>, Ext_ko_xz), FALSE, <<>>)}

LastDepLine == DepLine(ModFile(<<>>, <<"w">>, Ext_ko), TRUE, <<>>)

DepFilesOnDisk ==
    LET firsts == {DepLine(h, TRUE, d) : h \in HeadFiles, d \in DepLists}
    IN {<<l>> : l \in firsts}
         \cup {<<l, m>> : l \in firsts, m \in SecondLines}
         \cup {<<l, m, LastDepLine>> : l \in firsts, m \in MalformedDepLines}

\* str::find(char): the first index of the character, 0 for None
Find(s, c) ==
    LET at == {i \in 1..Len(s) : s[i] = c} IN
    IF at = {} THEN 0 ELSE CHOOSE i \in at : \A j \in at : i <= j

\* Path::file_stem: the file name up to its last dot; the whole name when
\* it has no dot or only a leading one; <<>> (None) without a file name.
FileStem(p) ==
    LET name == FileName(p)
        dots == {i \in 1..Len(name) : name[i] = "."}
        last == IF dots = {} THEN 0
                ELSE CHOOSE i \in dots : \A j \in dots : j <= i
    IN IF last <= 1 THEN name ELSE SubSeq(name, 1, last - 1)

\* get_module_name: the stem of the stem; <<>> stands for the Err
GetModuleName(filename) ==
    LET stem == FileStem(filename) IN
    IF stem = <<>> THEN <<>> ELSE FileStem(stem)

\* str::split(' '): the pieces between the separators, empty ones kept
RECURSIVE Split(_, _)
Split(s, sep) ==
    LET i == Find(s, sep) IN
    IF i = 0 THEN <<s>>
    ELSE <<SubSeq(s, 1, i - 1)>> \o Split(SubSeq(s, i + 1, Len(s)), sep)

RECURSIVE Reverse(_)
Reverse(s) ==
    IF s = <<>> THEN <<>> ELSE Reverse(Tail(s)) \o <<Head(s)>>

DepsKeptInOrder(deps) == deps

\* deps.reverse()
DepsReversed(deps) == Reverse(deps)

\* filter_map(|dep| get_module_name(dep).ok())
RECURSIVE ModuleNames(_)
ModuleNames(pieces) ==
    IF pieces = <<>> THEN <<>>
    ELSE LET name == GetModuleName(Head(pieces)) IN
         (IF name = <<>> THEN <<>> ELSE <<name>>) \o ModuleNames(Tail(pieces))

NoLine == [ok |-> FALSE]

\* the closure parse_module_dep maps over the lines
ParseDepLine(line) ==
    LET token_index == Find(line, ":")
        module_filename == SubSeq(line, 1, token_index - 1)
        module == GetModuleName(module_filename)
        rest_of_line == SubSeq(line, token_index + 1, Len(line))
        deps == IF rest_of_line = <<>> THEN <<>>
                ELSE DepsReversed(ModuleNames(
                         Split(SubSeq(rest_of_line, 2, Len(rest_of_line)),
                               " ")))
    IN IF token_index = 0 THEN NoLine
       ELSE IF module = <<>> THEN NoLine
       ELSE [ok |-> TRUE, module |-> module,
             record |-> [filename |-> module_filename, deps |-> deps]]

EmptyMap == [k \in {} |-> NoLine]

\* HashMap::insert
Insert(map, key, value) ==
    [k \in DOMAIN map \cup {key} |-> IF k = key THEN value ELSE map[k]]

\* filter_map(|res| res.ok()).collect() into the HashMap
RECURSIVE CollectMap(_, _)
CollectMap(lines, map) ==
    IF lines = <<>> THEN map
    ELSE LET res == ParseDepLine(Head(lines)) IN
         CollectMap(Tail(lines),
                    IF res.ok THEN Insert(map, res.module, res.record)
                    ELSE map)

RECURSIVE RenderLines(_)
RenderLines(file) ==
    IF file = <<>> THEN <<>>
    ELSE <<RenderLine(Head(file))>> \o RenderLines(Tail(file))

NotParsed == [state |-> "not_parsed"]

ParseModuleDep ==
    /\ p_fn = "parse_module_dep"
    /\ p_out = NotParsed
    /\ p_out' = [state |-> "ok", map |-> CollectMap(RenderLines(p_in), EmptyMap)]
    /\ UNCHANGED <<p_fn, p_in>>
    /\ UNCHANGED <<loaderVars, ueventVars, handlerVars, bootVars, newcVars, buildVars, aliasVars, formatVars, lockVars, outVars>>

(***************************************************************************)
(* get_root_from_cmdline builds the root device from the arguments of the  *)
(* kernel command line.                                                    *)
(***************************************************************************)
MaxArgs == 3

P_root_eq == <<"r", "o", "o", "t", "=">>
P_type_eq == <<"r", "o", "o", "t", ".", "t", "y", "p", "e", "=">>
P_uuid_eq == <<"U", "U", "I", "D", "=">>
S_ext4 == <<"e", "x", "t", "4">>
S_auto == <<"a", "u", "t", "o">>

CmdlineArgs ==
    {<<"r", "o">>,
     P_root_eq \o P_uuid_eq \o <<"a">>,
     P_root_eq \o P_uuid_eq \o <<"d">>,
     P_root_eq \o P_uuid_eq,
     P_root_eq \o <<"/", "s">>,
     P_root_eq,
     P_type_eq \o S_ext4,
     P_type_eq \o S_auto,
     P_type_eq \o <<"x", "f", "s">>}

Cmdlines == UNION {[1..n -> CmdlineArgs] : n \in 0..MaxArgs}

\* str::strip_prefix, on a string that has the prefix
StripPrefix(s, prefix) == SubSeq(s, Len(prefix) + 1, Len(s))

\* iter().filter(|arg| arg.starts_with(prefix))
ArgsWith(cmdline, prefix) ==
    SelectSeq(cmdline, LAMBDA arg : StartsWith(arg, prefix))

FirstOf(s) == s[1]

\* Iterator::last, on an iterator that is not empty
LastOf(s) == s[Len(s)]

\* TryFrom<&str> for Filesystem; "Err" for the bail!
FilesystemTryFrom(filesystem) ==
    IF filesystem = S_ext4 THEN "Ext4"
    ELSE IF filesystem = S_auto THEN "Auto"
    ELSE "Err"

NoRoot == [state |-> "err"]

GetRootFromCmdline(cmdline) ==
    LET auto_type == P_type_eq \o S_auto
        roots == ArgsWith(cmdline, P_root_eq)
        types == ArgsWith(cmdline, P_type_eq)
        identifier == StripPrefix(LastOf(roots), P_root_eq)
        filesystem ==
            FilesystemTryFrom(StripPrefix(
                IF types = <<>> THEN auto_type ELSE LastOf(types), P_type_eq))
    IN IF roots = <<>> THEN NoRoot
       ELSE IF filesystem = "Err" THEN NoRoot
       ELSE [state |-> "ok",
             root |-> [identifier |->
                          IF StartsWith(identifier, P_uuid_eq)
                          THEN [kind |-> "Uuid",
                                val |-> StripPrefix(identifier, P_uuid_eq)]
                          ELSE [kind |-> "Path", val |-> identifier],
                       filesystem |-> filesystem,
                       devpath |-> "None"]]

ParseCmdline ==
    /\ p_fn = "get_root_from_cmdline"
    /\ p_out = NotParsed
    /\ p_out' = GetRootFromCmdline(p_in)
    /\ UNCHANGED <<p_fn, p_in>>
    /\ UNCHANGED <<loaderVars, ueventVars, handlerVars, bootVars, newcVars, buildVars, aliasVars, formatVars, lockVars, outVars>>

(***************************************************************************)
(* load_modalias: the uevent listener hands each MODALIAS to the loader,   *)
(* which looks it up in the rules parse_module_alias read from             *)
(* modules.alias and loads the module of the rule it finds.                *)
(***************************************************************************)
MaxRules == 2

P_alias == <<"a", "l", "i", "a", "s", " ">>

\* a line "alias <pattern> <module>"; the module is missing when it is <<>>
AliasLine(pattern, module) == [pattern |-> pattern, module |-> module]

RenderAliasLine(l) ==
    P_alias \o l.pattern
        \o (IF l.module = <<>> THEN <<>> ELSE <<" ">> \o l.module)

AliasLines ==
    {AliasLine(<<"p", "*">>, <<"a">>),
     AliasLine(<<"p", "?", "1">>, <<"b">>),
     AliasLine(<<"p", "a", "1">>, <<"c">>),
     AliasLine(<<"*", "b">>, <<"x">>),
     AliasLine(<<"*">>, <<>>)}

AliasFiles == UNION {[1..n -> AliasLines] : n \in 0..MaxRules}

Modaliases == {<<"p", "a", "1">>, <<"p", "b">>, <<"u">>}

\* glob::Pattern::matches with the default MatchOptions, for patterns of
\* literal characters, ? and *
RECURSIVE Matches(_, _)
Matches(pattern, s) ==
    IF pattern = <<>> THEN s = <<>>
    ELSE IF Head(pattern) = "*"
         THEN Matches(Tail(pattern), s)
              \/ (s # <<>> /\ Matches(pattern, Tail(s)))
    ELSE IF Head(pattern) = "?"
         THEN s # <<>> /\ Matches(Tail(pattern), Tail(s))
    ELSE s # <<>> /\ Head(s) = Head(pattern)
         /\ Matches(Tail(pattern), Tail(s))

\* str::splitn(2, ' '): at most two pieces, cut at the first separator
Splitn2(s, sep) ==
    LET i == Find(s, sep) IN
    IF i = 0 THEN <<s>>
    ELSE <<SubSeq(s, 1, i - 1), SubSeq(s, i + 1, Len(s))>>

\* glob::Pattern::new, for the patterns of the model: an Err for a [ that
\* no ] closes
PatternNew(pattern) ==
    \A i \in 1..Len(pattern) :
        pattern[i] = "[" => \E j \in (i + 1)..Len(pattern) : pattern[j] = "]"

\* `line[6..]` panics on a line of fewer than 6 bytes
SlicePanics(line) == Len(line) < Len(P_alias)

\* the closure of parse_module_alias: the rule of a line, or the Err for a
\* line with a pattern that is no glob or without a module
ParseAliasLine(line) ==
    LET split == Splitn2(SubSeq(line, 7, Len(line)), " ") IN
    IF ~PatternNew(split[1]) THEN [ok |-> FALSE]
    ELSE IF Len(split) < 2 THEN [ok |-> FALSE]
    ELSE [ok |-> TRUE, pattern |-> split[1], module |-> split[2]]

\* filter_map(|res| res.ok()).collect() into the Vec
RECURSIVE ParseModuleAlias(_)
ParseModuleAlias(lines) ==
    IF lines = <<>> THEN <<>>
    ELSE LET res == ParseAliasLine(Head(lines)) IN
         (IF res.ok THEN <<[pattern |-> res.pattern, module |-> res.module]>>
          ELSE <<>>) \o ParseModuleAlias(Tail(lines))

RECURSIVE RenderAliasLines(_)
RenderAliasLines(file) ==
    IF file = <<>> THEN <<>>
    ELSE <<RenderAliasLine(Head(file))>> \o RenderAliasLines(Tail(file))

\* ModuleLoader.aliases, as ModuleLoader::init fills it
Aliases == ParseModuleAlias(RenderAliasLines(a_file))

LastMatch(aliases, modalias) ==
    LET at == {i \in 1..Len(aliases) : Matches(aliases[i].pattern, modalias)}
    IN IF at = {} THEN 0 ELSE CHOOSE i \in at : \A j \in at : j <= i

\* aliases.iter().find(|m| m.pattern.matches(modalias)): the index of the
\* rule found, 0 for None
FirstMatch(aliases, modalias) ==
    LET at == {i \in 1..Len(aliases) : Matches(aliases[i].pattern, modalias)}
    IN IF at = {} THEN 0 ELSE CHOOSE i \in at : \A j \in at : i <= j

\* the module name of a rule as the name the index is asked for
NameOf(module) == CHOOSE n \in Names : <<n>> = module

NoModalias == [modalias |-> <<>>, load |-> <<>>, ret |-> "none"]

\* load_modalias(modalias), up to its call of load_module: `ret` is Ok for
\* the Ok(()) without a rule and "load" while load_module decides it
LoadModalias(t, modalias) ==
    LET found == FirstMatch(Aliases, modalias) IN
    /\ stack[t] = <<>>
    /\ Len(results[t]) < MaxCalls
    /\ IF found = 0
       THEN /\ a_last' = [modalias |-> modalias, load |-> <<>>, ret |-> "Ok"]
            /\ UNCHANGED stack
       ELSE /\ a_last' = [modalias |-> modalias,
                          load |-> <<NameOf(Aliases[found].module)>>,
                          ret |-> "load"]
            /\ stack' = [stack EXCEPT ![t] =
                           <<[name |-> NameOf(Aliases[found].module),
                              pc |-> "check", i |-> 1]>>]
    /\ UNCHANGED <<a_file, modules_loaded, kernel, results, initCalls>>
    /\ UNCHANGED <<ueventVars, handlerVars, bootVars, newcVars, buildVars, parseVars, formatVars, lockVars, outVars>>

AliasInit ==
    /\ a_file \in AliasFiles
    /\ a_last = NoModalias

AliasIdle ==
    /\ a_file = <<>>
    /\ a_last = NoModalias

AliasNext ==
    \/ \E m \in Modaliases : LoadModalias("listener", m)
    \/ Check("listener")
    \/ LoadDep("listener")
    \/ Mark("listener")
    \/ InitStep("listener")

(***************************************************************************)
(* parse_module_alias over files with malformed lines.  A line is its text *)
(* and, for a well-formed line, the rule it stands for (rule is <<>> for   *)
(* a malformed one); the parser sees the text only.                        *)
(***************************************************************************)
RawLine(text, rule) == [text |-> text, rule |-> rule]

GoodLine(pattern, module) ==
    RawLine(RenderAliasLine(AliasLine(pattern, module)),
            <<[pattern |-> pattern, module |-> module]>>)

GoodAliasLines == {GoodLine(<<"p", "*">>, <<"a">>), GoodLine(<<"u", "?">>, <<"c">>)}

\* an empty line, a line shorter than "alias ", a line without a module
\* and a line whose pattern is no glob
MalformedAliasLines ==
    {RawLine(<<>>, <<>>),
     RawLine(<<"a", "l", "i">>, <<>>),
     RawLine(P_alias \o <<"p", "*">>, <<>>),
     RawLine(P_alias \o <<"[", "p", " ", "b">>, <<>>)}

AliasTexts ==
    UNION {[1..n -> GoodAliasLines \cup MalformedAliasLines] : n \in 0..MaxRules}
        \cup {<<g, m, h>> : g \in GoodAliasLines, m \in MalformedAliasLines,
                           h \in GoodAliasLines}

Texts(file) == [i \in 1..Len(file) |-> file[i].text]

\* parse_module_alias(filename): the Vec of rules, or the panic of the
\* first line that `line[6..]` cannot slice
ParseAliasFile ==
    /\ p_fn = "parse_module_alias"
    /\ p_out = NotParsed
    /\ p_out' = IF \E i \in 1..Len(p_in) : SlicePanics(p_in[i].text)
                THEN [state |-> "panic"]
                ELSE [state |-> "ok", rules |-> ParseModuleAlias(Texts(p_in))]
    /\ UNCHANGED <<p_fn, p_in>>
    /\ UNCHANGED <<loaderVars, ueventVars, handlerVars, bootVars, newcVars, buildVars, aliasVars, formatVars, lockVars, outVars>>

ParseInit ==
    /\ \/ p_fn = "parse_module_dep" /\ p_in \in DepFilesOnDisk
       \/ p_fn = "get_root_from_cmdline" /\ p_in \in Cmdlines
       \/ p_fn = "parse_module_alias" /\ p_in \in AliasTexts
    /\ p_out = NotParsed

ParseIdle ==
    /\ p_fn = "none"
    /\ p_in = <<>>
    /\ p_out = NotParsed

ParseNext ==
    \/ ParseModuleDep
    \/ ParseCmdline
    \/ ParseAliasFile

(***************************************************************************)
(* The ELF part of a build on hosts whose shared-library graph varies:     *)
(* each library needs up to MaxNeeded of the library names, so the graphs  *)
(* have cycles (libc.so needing libdm.so needing libc.so, a library        *)
(* needing itself) and libraries several binaries need.  libdm.so is a     *)
(* symlink to libdm.so.1, which a binary may also need by that name.       *)
(***************************************************************************)
MaxNeeded == 2

LibNames == {"libc.so", "libdm.so", "libz.so"}

NeededLists ==
    {l \in UNION {[1..n -> LibNames] : n \in 0..MaxNeeded} :
        \A i, j \in 1..Len(l) : l[i] = l[j] => i = j}

ElfHosts ==
    {[NoHost EXCEPT !.needed =
        [f \in ElfFiles |->
            CASE f = LibC -> c
              [] f = LibDm1 -> d
              [] f = LibZ -> z
              [] f = InitrzExe -> i
              [] f = Vgchange -> v
              [] OTHER -> Needed[f]]] :
        c \in NeededLists, d \in NeededLists, z \in NeededLists,
        i \in {<<"libc.so">>, <<"libz.so">>},
        v \in {<<"libdm.so", "libc.so">>, <<"libdm.so.1", "libdm.so">>}}

ElfInit ==
    /\ g_host \in ElfHosts
    /\ g_pc = "basic"
    /\ g_entries = <<>>
    /\ g_files = {}
    /\ g_last = NoAdd
    /\ gm_order = <<>>
    /\ g_modules = <<>>
    /\ g_mi = 0
    /\ g_resolved = <<>>

\* new() up to the last add_elf.
ElfNext ==
    \/ BasicStructure
    \/ AddInit
    \/ AddElf

(***************************************************************************)
(* mkinitrz's main: it creates the output file, checks the modules         *)
(* directory and the kernel version, builds the image (Initramfs::new,     *)
(* the build above, and into_bytes) and writes it.  Every `?` and ensure!  *)
(* that fails makes main return the error.                                 *)
(***************************************************************************)
Options ==
    [creatable : BOOLEAN,      \* File::create on the output path succeeds
     before : {"absent", "old"},  \* the output path before the run
     modules_dir : BOOLEAN,    \* kernel_modules_path exists and is a directory
     kver : BOOLEAN]           \* kernel_modules_path/kernel_version exists

NoOptions ==
    [creatable |-> TRUE, before |-> "absent", modules_dir |-> TRUE, kver |-> TRUE]

MainInit ==
    /\ o_opts \in Options
    /\ o_pc = "create"
    /\ o_file = o_opts.before

\* The other specifications do not run main.
MainIdle ==
    /\ o_opts = NoOptions
    /\ o_pc = "idle"
    /\ o_file = "absent"

\* The build of SpecMain waits for main to call Initramfs::new.
BuildWaits ==
    /\ g_host \in Hosts
    /\ g_pc = "idle"
    /\ g_entries = <<>>
    /\ g_files = {}
    /\ g_last = NoAdd
    /\ gm_order = <<>>
    /\ g_modules = <<>>
    /\ g_mi = 0
    /\ g_resolved = <<>>

\* File::create(output).with_context(..)?: creates or truncates the file.
CreateOutput ==
    /\ o_pc = "create"
    /\ IF o_opts.creatable
       THEN o_file' = "empty" /\ o_pc' = "ensure"
       ELSE o_file' = o_file /\ o_pc' = "exit_err"
    /\ UNCHANGED o_opts
    /\ UNCHANGED <<loaderVars, ueventVars, handlerVars, bootVars, newcVars, buildVars, parseVars, aliasVars, formatVars, lockVars>>

\* The three ensure! of main.
EnsureModules ==
    /\ o_pc = "ensure"
    /\ o_pc' = IF o_opts.modules_dir /\ o_opts.kver THEN "new" ELSE "exit_err"
    /\ UNCHANGED <<o_opts, o_file>>
    /\ UNCHANGED <<loaderVars, ueventVars, handlerVars, bootVars, newcVars, buildVars, parseVars, aliasVars, formatVars, lockVars>>

\* main calls Initramfs::new.
CallNew ==
    /\ o_pc = "new"
    /\ g_pc = "idle"
    /\ g_pc' = "basic"
    /\ o_pc' = "building"
    /\ UNCHANGED <<o_opts, o_file>>
    /\ UNCHANGED <<g_host, g_entries, g_files, g_last, gm_order, g_modules, g_mi,
                   g_resolved>>
    /\ UNCHANGED <<loaderVars, ueventVars, handlerVars, bootVars, newcVars, parseVars, aliasVars, formatVars, lockVars>>

\* Initramfs::new(..)? returned an Err.
NewFailed ==
    /\ o_pc = "building"
    /\ g_pc = "failed"
    /\ o_pc' = "exit_err"
    /\ UNCHANGED <<o_opts, o_file>>
    /\ UNCHANGED <<loaderVars, ueventVars, handlerVars, bootVars, newcVars, buildVars, parseVars, aliasVars, formatVars, lockVars>>

\* writer.write_all(initramfs)? (or the zstd encoder's): all the bytes, or
\* an error after some of them.
WriteOutput ==
    /\ o_pc = "building"
    /\ g_pc = "done"
    /\ \E written \in BOOLEAN :
          IF written THEN o_file' = "image" /\ o_pc' = "exit_ok"
          ELSE o_file' = "partial" /\ o_pc' = "exit_err"
    /\ UNCHANGED o_opts
    /\ UNCHANGED <<loaderVars, ueventVars, handlerVars, bootVars, newcVars, buildVars, parseVars, aliasVars, formatVars, lockVars>>

MainNext ==
    \/ CreateOutput
    \/ EnsureModules
    \/ CallNew
    \/ BasicStructure
    \/ AddInit
    \/ AddElf
    \/ AddLdConf
    \/ AddModulesFile
    \/ \E i \in 1..MaxModules : FilterTask(i)
    \/ Collect
    \/ AddModule
    \/ AddCrypttab
    \/ NewFailed
    \/ WriteOutput

(***************************************************************************)
(* The specifications.                                                     *)
(***************************************************************************)
InitOfLoader == LoaderInit /\ UeventInit /\ HandlerFixed /\ BootInit /\ NewcIdle /\ BuildIdle /\ ParseIdle /\ AliasIdle /\ FormatFixed /\ LockFree /\ MainIdle

InitOfUevent == LoaderInit /\ UeventInit /\ HandlerFixed /\ BootInit /\ NewcIdle /\ BuildIdle /\ ParseIdle /\ AliasIdle /\ FormatFixed /\ LockFree /\ MainIdle

InitOfHandler == LoaderInit /\ UeventInit /\ HandlerInit /\ BootInit /\ NewcIdle /\ BuildIdle /\ ParseIdle /\ AliasIdle /\ FormatFixed /\ LockFree /\ MainIdle

InitOfBoot == LoaderInit /\ UeventInit /\ HandlerFixed /\ BootInit /\ NewcIdle /\ BuildIdle /\ ParseIdle /\ AliasIdle /\ FormatFixed /\ LockFree /\ MainIdle

SpecLoader == InitOfLoader /\ [][LoaderNext]_vars

SpecUevent == InitOfUevent /\ [][UeventNext]_vars

SpecHandler == InitOfHandler /\ [][HandlerNext]_vars

SpecBoot == InitOfBoot /\ [][BootNext]_vars

InitOfNewc ==
    LoaderInit /\ UeventInit /\ HandlerFixed /\ BootInit /\ NewcInit
    /\ BuildIdle /\ ParseIdle /\ AliasIdle /\ FormatFixed /\ LockFree /\ MainIdle

SpecNewc == InitOfNewc /\ [][NewcNext]_vars

InitOfBuild ==
    LoaderInit /\ UeventInit /\ HandlerFixed /\ BootInit /\ NewcIdle
    /\ BuildInit /\ ParseIdle /\ AliasIdle /\ FormatFixed /\ LockFree /\ MainIdle

SpecBuild == InitOfBuild /\ [][BuildNext]_vars

InitOfParse ==
    LoaderInit /\ UeventInit /\ HandlerFixed /\ BootInit /\ NewcIdle
    /\ BuildIdle /\ ParseInit /\ AliasIdle /\ FormatFixed /\ LockFree /\ MainIdle

SpecParse == InitOfParse /\ [][ParseNext]_vars

InitOfAlias ==
    LoaderInit /\ UeventInit /\ HandlerFixed /\ BootInit /\ NewcIdle
    /\ BuildIdle /\ ParseIdle /\ AliasInit /\ FormatFixed /\ LockFree /\ MainIdle

SpecAlias == InitOfAlias /\ [][AliasNext]_vars

InitOfFormat ==
    LoaderInit /\ UeventInit /\ HandlerFixed /\ BootInit /\ NewcIdle
    /\ BuildIdle /\ ParseIdle /\ AliasIdle /\ FormatInit /\ LockFree /\ MainIdle

SpecFormat == InitOfFormat /\ [][FormatNext]_vars

InitOfLock ==
    LoaderInit /\ UeventInit /\ HandlerFixed /\ BootInit /\ NewcIdle
    /\ BuildIdle /\ ParseIdle /\ AliasIdle /\ FormatFixed /\ LockFree /\ MainIdle

SpecLock == InitOfLock /\ [][LockNext]_vars

InitOfMain ==
    LoaderInit /\ UeventInit /\ HandlerFixed /\ BootInit /\ NewcIdle
    /\ BuildWaits /\ ParseIdle /\ AliasIdle /\ FormatFixed /\ LockFree /\ MainInit

SpecMain == InitOfMain /\ [][MainNext]_vars

InitOfDeps ==
    LoaderInit /\ UeventInit /\ HandlerFixed /\ BootInit /\ NewcIdle
    /\ BuildIdle /\ ParseIdle /\ AliasIdle /\ FormatFixed /\ LockFree /\ MainIdle

SpecDeps == InitOfDeps /\ [][DepsNext]_vars

InitOfElf ==
    LoaderInit /\ UeventInit /\ HandlerFixed /\ BootInit /\ NewcIdle
    /\ ElfInit /\ ParseIdle /\ AliasIdle /\ FormatFixed /\ LockFree /\ MainIdle

SpecElf == InitOfElf /\ [][ElfNext]_vars

(***************************************************************************)
(* Claims about the module loader.                                         *)
(***************************************************************************)

\* The step in which thread t calls init_module for the module of its
\* innermost frame.
CallsInitModule(t) ==
    /\ stack[t] # <<>>
    /\ Top(t).pc = "init"
    /\ initCalls'[t] # initCalls[t]

\* C1: whenever init_module is invoked for a module m, every transitive
\* dependency of m that is in the index is already in the kernel (its own
\* init_module completed with success or EEXIST), also when another thread
\* is loading that dependency at the same time.
C1_DepsInsertedBeforeDependent ==
    [][\A t \in Threads :
          CallsInitModule(t) => IndexedTransDeps(Top(t).name) \subseteq kernel]_vars

\* C2 as stated: when init_module is called for m, the loaded set holds
\* every transitive element of deps(m).
C2_LoadedSetHoldsAllDeps ==
    \A t \in Threads :
        (stack[t] # <<>> /\ Top(t).pc = "init")
            => TransDeps(Top(t).name) \subseteq modules_loaded

\* C2 amended: when init_module is called for m, the loaded set holds every
\* transitive element of deps(m) that is in the module index.
C2_LoadedSetHoldsIndexedDeps ==
    \A t \in Threads :
        (stack[t] # <<>> /\ Top(t).pc = "init")
            => IndexedTransDeps(Top(t).name) \subseteq modules_loaded

\* A thread is about to call init_module for c, whose deps reach b and a.
C2_Witness ==
    \E t \in Threads :
        /\ stack[t] # <<>>
        /\ Top(t).pc = "init"
        /\ Top(t).name = "c"
        /\ {"a", "b"} \subseteq modules_loaded

\* C3 as stated: after load(n); load(n) on one thread, at most one
\* init_module call was made for n and both calls returned Loaded.
C3_BothCallsLoaded ==
    \A t \in Threads :
        (/\ Len(results[t]) >= 2
         /\ results[t][1].name = results[t][2].name
         /\ results[t][1].name \in DOMAIN modules)
            => /\ initCalls[t][results[t][1].name] <= 1
               /\ results[t][1].res = "Loaded"
               /\ results[t][2].res = "Loaded"

\* C3 amended: a thread never calls init_module twice for one module; a
\* load of a name of the index returns Loaded or an error, never Unknown,
\* and once one load(n) returned Loaded every later load(n) does; a load of
\* a name that is in the loaded set returns Loaded without an init_module
\* call and without changing the loaded set.
C3_LoadIdempotent ==
    /\ [](\A t \in Threads : \A n \in DOMAIN modules : initCalls[t][n] <= 1)
    /\ [](\A t \in Threads : \A j \in 1..Len(results[t]) :
            results[t][j].name \in DOMAIN modules
                => /\ results[t][j].res # "Unknown"
                   /\ \A i \in 1..(j - 1) :
                        (/\ results[t][i].name = results[t][j].name
                         /\ results[t][i].res = "Loaded")
                            => results[t][j].res = "Loaded")
    /\ [][\A t \in Threads :
            (/\ stack[t] # <<>>
             /\ Top(t).pc = "check"
             /\ Top(t).name \in modules_loaded
             /\ stack'[t] # stack[t])
                => /\ UNCHANGED <<modules_loaded, kernel, initCalls>>
                   /\ Len(stack'[t]) = Len(stack[t]) - 1
                   /\ Len(stack[t]) = 1
                        => results'[t] =
                             Append(results[t],
                                    [name |-> Top(t).name, res |-> "Loaded"])]_vars

\* One thread did load(n); load(n): both returned Loaded after one
\* init_module call.
C3_Witness ==
    \E t \in Threads :
        /\ Len(results[t]) = 2
        /\ results[t][1] = [name |-> "b", res |-> "Loaded"]
        /\ results[t][2] = [name |-> "b", res |-> "Loaded"]
        /\ initCalls[t]["b"] = 1

\* C4: the kernel answering EEXIST to init_module is success: no load()
\* call returns an error because of EEXIST.
C4_EexistIsSuccess ==
    \A t \in Threads : \A i \in 1..Len(results[t]) : results[t][i].res # "EEXIST"

\* C5: a load of a name that is neither in the loaded set nor in the index
\* returns Unknown, calls init_module for nothing, loads no other module
\* and leaves the loaded set as it is; as a dependency it lets the
\* dependent go on with its next dependency or its own insertion.
C5_UnknownIsNotAnError ==
    [][\A t \in Threads :
          (/\ stack[t] # <<>>
           /\ Top(t).pc = "check"
           /\ Top(t).name \notin modules_loaded
           /\ Top(t).name \notin DOMAIN modules
           /\ stack'[t] # stack[t])
              => /\ UNCHANGED <<modules_loaded, kernel, initCalls>>
                 /\ Len(stack'[t]) = Len(stack[t]) - 1
                 /\ Len(stack[t]) = 1
                      => results'[t] =
                           Append(results[t],
                                  [name |-> Top(t).name, res |-> "Unknown"])
                 /\ Len(stack[t]) > 1
                      => LET p == stack[t][Len(stack[t]) - 1] IN
                         /\ results'[t] = results[t]
                         /\ stack'[t][Len(stack'[t])] = AfterDep(p.name, p.i + 1)]_vars

\* load("x") returned Unknown, and c, which names x as a dependency, was
\* inserted into the kernel.
C5_Witness ==
    /\ "c" \in kernel
    /\ \E t \in Threads : \E i \in 1..Len(results[t]) :
          results[t][i] = [name |-> "x", res |-> "Unknown"]

(***************************************************************************)
(* Claims about the uevent listener.                                       *)
(***************************************************************************)

\* What the listener is to emit for a uevent: a path exactly when SUBSYSTEM
\* is block and the action fits the device (dm-* on change, any other on
\* add); /dev/mapper/<trimmed text of /sys<DEVPATH>/dm/name> for a dm
\* device, /dev/<devname> for any other.
ExpectedEmit(u) ==
    IF ~({"SUBSYSTEM", "ACTION", "DEVPATH"} \subseteq u.has) THEN RNone
    ELSE LET devname == FileName(u.devpath)
             dm == StartsWith(devname, P_dm_prefix)
         IN
         IF u.subsystem = "block" /\ u.action = (IF dm THEN "change" ELSE "add")
         THEN IF dm
              THEN RSome(PathJoin(P_dev_mapper,
                                  Trim(SysFs[PathJoin(P_sys \o u.devpath, P_dm_name)])))
              ELSE RSome(PathJoin(P_dev, devname))
         ELSE RNone

\* C6: for every parsed uevent the listener emits a device path if and only
\* if SUBSYSTEM is block and the action matches the device-type rule, and
\* the path is /dev/<devname>, or /dev/mapper/<name> with <name> the
\* trimmed text of /sys/<devpath>/dm/name; every other uevent emits nothing.
C6_EmitsExpectedPath ==
    (ue_last.step = "uevent" /\ "MODALIAS" \notin ue_last.uevent.has)
        => LET want == ExpectedEmit(ue_last.uevent) IN
           IF want.kind = "Some" THEN ue_last.res = want
           ELSE ue_last.res.kind # "Some"


(***************************************************************************)
(* Claims about the device handler.                                        *)
(***************************************************************************)

\* The record handle(path) is to unlock: the first record whose Path
\* identifier is the path, if there is one, else the first record whose
\* Uuid identifier is the device's UUID; 0 when no record matches.
ExpectedRecord(enc, path) ==
    LET paths == {i \in 1..Len(enc) : enc[i].identifier = IdPath(path)}
        uuids == {i \in 1..Len(enc) :
                    /\ enc[i].identifier.kind = "Uuid"
                    /\ path \in Devices
                    /\ enc[i].identifier.val = Blkid[path].uuid}
        first(S) == CHOOSE i \in S : \A j \in S : i <= j
    IN IF paths # {} THEN first(paths)
       ELSE IF uuids # {} THEN first(uuids) ELSE 0

OpNames(ops) == {ops[i][1] : i \in 1..Len(ops)}

\* C7: handle(path) first matches the device against the encrypted list,
\* preferring a Path record over any Uuid record; on a hit it unlocks that
\* record and does nothing else; the root check is made only when no record
\* matches, and the TYPE probe and LVM step only when the root check failed.
C7_HandlePrecedence ==
    h_last.path # ""
        => LET e == ExpectedRecord(h_enc, h_last.path)
               ops == h_last.ops
           IN
           /\ e # 0 => ops = <<<<"unlock", h_enc[e].name>>>>
           /\ e = 0 => /\ ops[1] = <<"is_root", "">>
                       /\ "unlock" \notin OpNames(ops)
           /\ "mount_root" \in OpNames(ops)
                => ops = <<<<"is_root", "">>, <<"mount_root", h_last.path>>>>
           /\ OpNames(ops) \cap {"probe_type", "vgchange", "vgmknodes"} # {}
                => /\ ops[1] = <<"is_root", "">>
                   /\ ops[2] = <<"probe_type", "">>
                   /\ "mount_root" \notin OpNames(ops)

\* /dev/sda2 matches the Uuid record c1 and the later Path record c2: c2
\* was unlocked.
C7_Witness ==
    /\ Len(h_enc) = 2
    /\ h_enc[1].identifier = IdUuid("u2")
    /\ h_last.path = "/dev/sda2"
    /\ h_last.ops = <<<<"unlock", "c2">>>>

(***************************************************************************)
(* C8.  The claim: no timeout governs root discovery.  In an execution in  *)
(* which no device matching the root spec ever appears and no step before  *)
(* or in the result loop fails, the handler never leaves its loop for      *)
(* time's sake and main never goes past the result loop (so it neither     *)
(* runs the switch_root steps nor launches the rescue shell).              *)
(***************************************************************************)
UpToLoop == {MainSteps[i] : i \in 1..StepIndex("result_loop")}

PastLoop == {MainSteps[i] : i \in (StepIndex("result_loop") + 1)..Len(MainSteps)}

RootNeverAppeared ==
    /\ SearchRootHits = {}
    /\ \A i \in 1..Len(b_events) : ~MatchesRoot(b_events[i])

C9_StopsOnRootFound ==
    /\ [](b_mounts <= 1)
    /\ [][h_root_mount # NoMount => b_handled' = b_handled]_vars

(***************************************************************************)
(* C10.  PID 1 ends by exec: /sbin/init is exec'd only after every step    *)
(* succeeded, a fatal error leads to the exec of the rescue shell, and     *)
(* main does not return without having called exec for the rescue shell.   *)
(***************************************************************************)
C10_AlwaysEndsByExec ==
    /\ (m_pc = "init_running" => m_err = "")
    /\ (m_pc = "rescue_shell" => m_err # "")
    /\ (m_pc = "returned" => "ash" \in m_tried)

(***************************************************************************)
(* C11.  Archive::into_bytes(E) is the serialization of the entries of E   *)
(* in order, the entry at index i written with inode 1337 + i whatever     *)
(* inode it had, followed by one trailer entry named TRAILER!!! as the     *)
(* last entry; for the empty list it is the bytes of a single trailer      *)
(* entry.  (Each entry is serialized on its own here, into an empty        *)
(* buffer; the loop of into_bytes writes and pads one growing buffer.)     *)
(***************************************************************************)
RECURSIVE SerializedInOrder(_, _)
SerializedInOrder(entries, upto) ==
    IF upto = 0 THEN <<>>
    ELSE SerializedInOrder(entries, upto - 1)
         \o Write([entries[upto] EXCEPT !.ino = 1337 + (upto - 1)], <<>>)

C11_IntoBytesSerializesInOrder ==
    /\ n_pc \in {"loop", "error"} =>
          n_buf = SerializedInOrder(n_entries, n_idx)
    /\ n_pc = "done" =>
          /\ n_idx = Len(n_entries)
          /\ n_buf = SerializedInOrder(n_entries, Len(n_entries))
                     \o Write(TrailerEntry, <<>>)
          /\ n_entries = <<>> => n_buf = Write(TrailerEntry, <<>>)
    /\ n_pc = "error" => NameFails(n_entries[n_idx + 1])

\* Two entries were written, the first of which came with an inode of its
\* own and the second with data, and the trailer after them.
C11_Witness ==
    /\ n_pc = "done"
    /\ Len(n_entries) = 2
    /\ n_entries[1].ino = 7
    /\ n_entries[2].data.some
    /\ Len(n_buf) > Len(Write(TrailerEntry, <<>>))

(***************************************************************************)
(* C12.  newc round trip: for entries with unique names, a reader of the   *)
(* bytes into_bytes returned yields the entries again (same names, modes,  *)
(* mtimes, rdev numbers and data, in the same order, inodes 1337 + index), *)
(* and the length of the bytes is a multiple of 4.                         *)
(***************************************************************************)
UniqueNames(entries) ==
    \A i, j \in 1..Len(entries) : entries[i].name = entries[j].name => i = j

ReadBack(entries) ==
    [i \in 1..Len(entries) |->
        [name |-> entries[i].name,
         ino |-> Hex(1337 + (i - 1)),
         mode |-> entries[i].mode,
         mtime |-> entries[i].mtime,
         rdev_major |-> entries[i].rdev_major,
         rdev_minor |-> entries[i].rdev_minor,
         data |-> entries[i].data.bytes]]

C12_NewcRoundTrip ==
    (n_pc = "done" /\ UniqueNames(n_entries) /\ r_pc # "read") =>
        /\ r_pc = "end"
        /\ r_out = ReadBack(n_entries)
        /\ r_pos = Len(n_buf)
        /\ Len(n_buf) % 4 = 0

(***************************************************************************)
(* C13.  After any of the builder's adds (the skeleton, add_elf,           *)
(* add_library, add_file, add_file_with_path, add_directory and the direct *)
(* add_entry of /etc/ld.so.conf) no two entries of the image share a name, *)
(* and the files set holds exactly the paths of the entries; an add of a   *)
(* path that is already present adds no entry and reports false.           *)
(***************************************************************************)
NoTwoEntriesShareAName ==
    \A i, j \in 1..Len(g_entries) :
        g_entries[i].name = g_entries[j].name => i = j

FilesAreThePathsOfEntries ==
    g_files = {g_entries[i].name : i \in 1..Len(g_entries)}

AddSteps ==
    {"init", "vgchange", "vgmknodes", "busybox", "ld_conf", "modules_dep",
     "modules_alias", "add_modules"}

C13_BuilderDedupesByName ==
    /\ [](NoTwoEntriesShareAName /\ FilesAreThePathsOfEntries)
    /\ [][(g_pc \in AddSteps /\ g_last'.present)
            => (g_entries' = g_entries /\ g_last'.ret = "false")]_vars

(***************************************************************************)
(* C14.  Image determinism: every build of a host ends the same way, with  *)
(* the entries of the build that takes the modules in modules.dep order -  *)
(* whatever the order in which the parallel filter of get_modules finished *)
(* its items.  (The image is Archive::into_bytes of the entries; the hash  *)
(* sets of the builder are only asked for membership.)                     *)
(***************************************************************************)
RECURSIVE ModulesInDepOrder(_, _)
ModulesInDepOrder(h, upto) ==
    IF upto = 0 THEN <<>>
    ELSE ModulesInDepOrder(h, upto - 1)
         \o (IF Keep(h, h.moddep[upto]) THEN <<KRoot \o h.moddep[upto].path>>
             ELSE <<>>)

RECURSIVE AddModulesInOrder(_, _, _)
AddModulesInOrder(h, st, files) ==
    IF files = <<>> THEN [st |-> st, res |-> "ok"]
    ELSE LET r == AddFileWithPath(h, st, Head(files), ModulesTarget(Head(files)))
         IN IF r.res = "err" THEN r ELSE AddModulesInOrder(h, r.st, Tail(files))

Failed == [ok |-> FALSE, entries |-> <<>>]

ImageOf(h) ==
    LET s0 == Skeleton(Skeleton([entries |-> <<>>, files |-> {}, resolved |-> <<>>],
                                ROOT_DIRECTORIES, "dir"), ROOT_SYMLINKS, "symlink")
        r1 == AddElfWithPath(h, s0, InitrzExe, InitPath)
        r2 == AddElfWithPath(h, r1.st, Vgchange, Vgchange)
        r3 == AddElfWithPath(h, r2.st, Vgmknodes, Vgmknodes)
        r4 == AddElfWithPath(h, r3.st, Busybox, Busybox)
        s5 == AddEntry(r4.st, LdConf, "file")
        dep == KRoot \o <<"modules.dep">>
        alias == KRoot \o <<"modules.alias">>
        r6 == AddFileWithPath(h, s5, dep, ModulesTarget(dep))
        r7 == AddFileWithPath(h, r6.st, alias, ModulesTarget(alias))
        r8 == AddModulesInOrder(h, r7.st, ModulesInDepOrder(h, Len(h.moddep)))
        r9 == IF h.type = "Host" /\ Exists(h, Crypttab)
              THEN AddFileWithPath(h, r8.st, Crypttab, Crypttab)
              ELSE r8
    IN IF r1.res = "err" THEN Failed
       ELSE IF r2.res = "err" THEN Failed
       ELSE IF r3.res = "err" THEN Failed
       ELSE IF r4.res = "err" THEN Failed
       ELSE IF ~Exists(h, LdConf) THEN Failed
       ELSE IF r6.res = "err" \/ r7.res = "err" THEN Failed
       ELSE IF r8.res = "err" \/ r9.res = "err" THEN Failed
       ELSE [ok |-> TRUE, entries |-> r9.st.entries]

NamesReversed(deps) ==
    [i \in 1..Len(deps) |-> deps[Len(deps) - i + 1].name]

Highest(S) == CHOOSE i \in S : \A j \in S : j <= i

C16_RootSpecFromLastArguments ==
    (p_fn = "get_root_from_cmdline" /\ p_out # NotParsed) =>
        LET rootAt == {i \in 1..Len(p_in) : StartsWith(p_in[i], P_root_eq)}
            typeAt == {i \in 1..Len(p_in) : StartsWith(p_in[i], P_type_eq)}
            value == StripPrefix(p_in[Highest(rootAt)], P_root_eq)
            type == IF typeAt = {} THEN S_auto
                    ELSE StripPrefix(p_in[Highest(typeAt)], P_type_eq)
        IN IF rootAt = {} \/ type \notin {S_ext4, S_auto}
           THEN p_out.state = "err"
           ELSE /\ p_out.state = "ok"
                /\ p_out.root.identifier =
                       IF StartsWith(value, P_uuid_eq)
                       THEN [kind |-> "Uuid",
                             val |-> SubSeq(value, 6, Len(value))]
                       ELSE [kind |-> "Path", val |-> value]
                /\ p_out.root.filesystem =
                       (IF type = S_ext4 THEN "Ext4" ELSE "Auto")
                /\ p_out.root.devpath = "None"

C16_Witness ==
    /\ p_fn = "get_root_from_cmdline"
    /\ p_in = <<P_root_eq \o P_uuid_eq \o <<"a">>,
                P_root_eq \o P_uuid_eq \o <<"d">>,
                P_type_eq \o S_ext4>>
    /\ p_out.state = "ok"
    /\ p_out.root.identifier = [kind |-> "Uuid", val |-> <<"d">>]
    /\ p_out.root.filesystem = "Ext4"

(***************************************************************************)
(* C17.  load_modalias(m) calls load_module for the module of the first    *)
(* rule of modules.alias, in file order, whose pattern matches m, and for  *)
(* no other module; when no rule matches it returns Ok, calls load_module  *)
(* for no module and leaves the loaded set as it was.                      *)
(***************************************************************************)
RulesMatching(m) ==
    {i \in 1..Len(a_file) :
        a_file[i].module # <<>> /\ Matches(a_file[i].pattern, m)}

C17_FirstMatchingRuleIsLoaded ==
    [][\A m \in Modaliases :
          LoadModalias("listener", m) =>
              IF RulesMatching(m) = {}
              THEN /\ a_last'.ret = "Ok"
                   /\ a_last'.load = <<>>
                   /\ stack' = stack
                   /\ modules_loaded' = modules_loaded
              ELSE \E i \in RulesMatching(m) :
                      /\ \A j \in RulesMatching(m) : i <= j
                      /\ a_last'.load = <<NameOf(a_file[i].module)>>
                      /\ stack'["listener"] =
                             <<[name |-> NameOf(a_file[i].module),
                                pc |-> "check", i |-> 1]>>]_vars

C17_Witness ==
    /\ a_file = <<AliasLine(<<"p", "?", "1">>, <<"b">>),
                  AliasLine(<<"p", "*">>, <<"a">>)>>
    /\ a_last.modalias = <<"p", "a", "1">>
    /\ a_last.load = <<"b">>
    /\ results["listener"] = <<[name |-> "b", res |-> "Loaded"]>>
    /\ modules_loaded = {"a", "b"}

(***************************************************************************)
(* C18.  The load by modalias of a uevent that carries MODALIAS is never   *)
(* fatal: whether it succeeded or failed, the uevent goes through the      *)
(* block-device filter and yields what it yields when the load succeeds,   *)
(* the path of a uevent that passes the filter is sent, and the listener   *)
(* stays in its loop (unless that send finds the receiver gone).           *)
(***************************************************************************)
C18_ModaliasLoadNeverFatal ==
    (ue_last.step = "uevent" /\ "MODALIAS" \in ue_last.uevent.has)
        => /\ ue_last.res = GetDevicePath(ue_last.uevent, TRUE)
           /\ ue_pc = "recv" \/ ~ue_rx_open

(***************************************************************************)
(* C19.  The listener leaves its loop only in an iteration whose send of a *)
(* device path fails because the receiver is gone: a failed read, an empty *)
(* read, an unparsable uevent and a uevent that yields no path leave it    *)
(* reading; once it has left the loop it sends nothing more.               *)
(***************************************************************************)
C19_StopsOnlyOnFailedSend ==
    [][/\ (ue_pc = "recv" /\ ue_pc' # "recv") =>
              /\ ~ue_rx_open
              /\ ue_last'.step = "uevent"
              /\ ue_last'.res.kind = "Some"
       /\ (/\ ue_pc = "recv"
           /\ ue_last' # ue_last
           /\ \/ ue_last'.step \in {"recv_error", "recv_empty", "parse_error"}
              \/ ue_last'.step = "uevent" /\ ue_last'.res.kind # "Some") =>
              ue_pc' = "recv"
       /\ ue_pc = "stopped" => (ue_pc' = "stopped" /\ ue_sent' = ue_sent)
       /\ ue_pc' = "stopped" => ue_sent' = ue_sent]_vars

C19_Witness ==
    /\ ue_pc = "stopped"
    /\ ~ue_rx_open
    /\ ue_last.step = "uevent"
    /\ ue_last.res.kind = "Some"
    /\ Len(ue_sent) = 1

(***************************************************************************)
(* C20.  For a path that matches no encrypted-device record, handle(path)  *)
(* mounts the device as root whenever it matches the root spec by the kind *)
(* of identifier the spec carries (a Path spec: the path of the device is  *)
(* the spec's path; a Uuid spec: the UUID probed on the device is the      *)
(* spec's uuid), and never when it does not match.                         *)
(***************************************************************************)
MatchesRootSpec(root, path) ==
    IF root.kind = "Path" THEN root.val = path
    ELSE Blkid[path].uuid = root.val

C20_RootFoundByIdentifierKind ==
    (h_last.path # "" /\ GetEncryptedDevice(h_enc, h_last.path) = 0) =>
        IF MatchesRootSpec(h_root, h_last.path)
        THEN "mount_root" \in OpNames(h_last.ops)
        ELSE /\ "mount_root" \notin OpNames(h_last.ops)
             /\ h_root_mount # h_last.path

(***************************************************************************)
(* C21.  For a device whose TYPE is lvm, handle runs vgchange and, only    *)
(* after it succeeded, vgmknodes; a failure of either makes that handle    *)
(* call return an error and does not end the event loop nor the boot:      *)
(* main does not fail on that result.  A device without a TYPE tag makes   *)
(* handle return success without running a command.                        *)
(***************************************************************************)
LastOp(ops) == ops[Len(ops)][1]

\* the last path handled went down the TYPE branch of handle
ProbedType == h_last.path # "" /\ "probe_type" \in OpNames(h_last.ops)

LvmCommandFailed ==
    /\ ProbedType
    /\ LastOp(h_last.ops) \in {"vgchange", "vgmknodes"}

LvmHandledAsClaimed ==
    /\ (ProbedType /\ Blkid[h_last.path].type = "lvm") =>
          /\ "vgchange" \in OpNames(h_last.ops)
          /\ LvmCommandFailed => h_last.res = "Err"
    /\ (ProbedType /\ Blkid[h_last.path].type = NoTag) =>
          /\ h_last.res = "Ok"
          /\ OpNames(h_last.ops) \cap {"vgchange", "vgmknodes"} = {}
    /\ (ProbedType /\ "vgmknodes" \in OpNames(h_last.ops)) =>
          \E i \in 1..Len(h_last.ops) :
              /\ h_last.ops[i][1] = "vgchange"
              /\ h_last.ops[i + 1][1] = "vgmknodes"

C21_LvmFailureEndsOnlyTheHandleCall ==
    /\ LvmHandledAsClaimed
    /\ (LvmCommandFailed /\ b_handled = 1) => m_err # "result_loop"

(***************************************************************************)
(* C22.  The start-up order of the orchestrator: the blkid probe, then the *)
(* channel and the uevent listener thread, then the walk of /sys, then the *)
(* root-search fast path and unlock-available-devices, once, and only then *)
(* the handling of paths from the channel.  So the listener runs when the  *)
(* fast path starts, the handler is not started before the walk of /sys    *)
(* and the fast path are over, and no path is handled before the fast      *)
(* path has run.                                                           *)
(***************************************************************************)
UpToStep(step) == {MainSteps[i] : i \in 1..StepIndex(step)}

C22_StartupOrder ==
    /\ m_pc \in {"unlock_available", "search_root"} => l_pc # "unborn"
    /\ d_pc # "unborn" => m_pc \notin UpToStep("sys_walk")
    /\ b_handled > 0 => m_pc \notin UpToStep("search_root")

(***************************************************************************)
(* C23.  A malformed line of modules.dep or modules.alias (an empty line,  *)
(* a line without ':', a line shorter than "alias ", a line with a field   *)
(* missing or with a pattern that is no glob) never aborts the parse nor   *)
(* crashes the program: it is skipped, and every well-formed line before   *)
(* and after it is in the index, or in the sequence of rules in file       *)
(* order.                                                                  *)
(***************************************************************************)
RECURSIVE RulesOf(_)
RulesOf(file) ==
    IF file = <<>> THEN <<>> ELSE Head(file).rule \o RulesOf(Tail(file))

C23_MalformedLinesAreSkipped ==
    /\ (p_fn = "parse_module_dep" /\ p_out # NotParsed) =>
          /\ p_out.state = "ok"
          /\ \A n \in 1..Len(p_in) :
                p_in[n].colon =>
                    /\ p_in[n].head.name \in DOMAIN p_out.map
                    /\ p_out.map[p_in[n].head.name].filename
                           = RenderFile(p_in[n].head)
          /\ \A n \in 1..Len(p_in) :
                ~p_in[n].colon => p_in[n].head.name \notin DOMAIN p_out.map
    /\ (p_fn = "parse_module_alias" /\ p_out # NotParsed) =>
          /\ p_out.state = "ok"
          /\ p_out.rules = RulesOf(p_in)

(***************************************************************************)
(* C24.  A module whose file is neither xz nor zstd is treated as          *)
(* successfully absent: no init_module call is made for it, a load of it   *)
(* returns success, and a load that fails has tried to insert a module of  *)
(* a known format (an unknown format alone fails no dependent).            *)
(***************************************************************************)
C24_UnknownFormatIsSkipped ==
    /\ \A n \in DOMAIN modules :
          f_format[n] = "other" => initCalls["main"][n] = 0
    /\ \A i \in 1..Len(results["main"]) :
          LET r == results["main"][i] IN
          /\ (r.name \in DOMAIN modules /\ f_format[r.name] = "other"
                /\ \A d \in IndexedTransDeps(r.name) : d \in kernel)
                => r.res = "Loaded"
          /\ r.res = "Failed" =>
                \E m \in DOMAIN modules :
                    f_format[m] # "other" /\ initCalls["main"][m] > 0

(***************************************************************************)
(* C25.  Library closure: on every host, whatever its library graph        *)
(* (cycles, libraries shared by several binaries), adding an ELF file      *)
(* returns; depend::resolve is called at most once for a path and no two   *)
(* entries have the same name, so the work is bounded by the number of     *)
(* paths; and after an add_elf returned Ok every library reachable from    *)
(* the ELF file through the DT_NEEDED names is an entry of the image,      *)
(* with the file a library symlink leads to.                               *)
(***************************************************************************)
\* Where the libraries of the hosts are.
LibraryFile(name) ==
    CASE name = "libc.so" -> LibC
      [] name = "libdm.so" -> LibDm
      [] name = "libdm.so.1" -> LibDm1
      [] name = "libz.so" -> LibZ

\* The file a library path is or links to on the hosts.
LibraryTarget(path) == IF path = LibDm THEN LibDm1 ELSE path

NamesNeededBy(h, file) == {h.needed[file][i] : i \in 1..Len(h.needed[file])}

\* The library names reachable from a set of names.
RECURSIVE Reachable(_, _)
Reachable(h, names) ==
    LET more == names \cup UNION {NamesNeededBy(h, LibraryTarget(LibraryFile(n))) :
                                    n \in names}
    IN IF more = names THEN names ELSE Reachable(h, more)

EntryNames == {g_entries[i].name : i \in 1..Len(g_entries)}

ElfAdded ==
    /\ g_last.ret = "ok"
    /\ g_last.path \in {InitPath, Vgchange, Vgmknodes, Busybox}

ElfOfLast == IF g_last.path = InitPath THEN InitrzExe ELSE g_last.path

Holds(t) == t \in rw.readers \/ rw.writer = t

Holders == rw.readers \cup (IF rw.writer = NoWriter THEN {} ELSE {rw.writer})

\* The thread is at read() or write() and the lock is not available to it.
Waits(t) ==
    /\ stack[t] # <<>>
    /\ \/ Top(t).pc = "check" /\ t \notin rw.readers /\ rw.writer # NoWriter
       \/ Top(t).pc = "mark" /\ rw.writer # t /\ rw # Unlocked

C26_LockNotHeldAcrossCalls ==
    /\ \A t \in Threads :
          Holds(t) => (stack[t] # <<>> /\ Top(t).pc \in {"check", "mark"})
    /\ \A t \in Threads :
          /\ t \in rw.readers => rw.writer = NoWriter
          /\ rw.writer = t => rw.readers = {}
    /\ \A t \in Threads :
          Waits(t) => (Holders # {} /\ \A u \in Holders : u # t /\ ~Waits(u))

\* One thread is inserting module a (after its insert into the set) while
\* the other has taken the write guard for another module.
C26_Witness ==
    /\ stack["main"] # <<>> /\ stack["listener"] # <<>>
    /\ Top("main").pc = "init"
    /\ Top("main").name = "a"
    /\ Top("listener").name = "b"
    /\ rw.writer = "listener"

(***************************************************************************)
(* C27.  Loaded set and kernel: every name in the loaded set is a module   *)
(* the kernel holds, or one some thread is inserting right now (its frame  *)
(* is at init_module); a load that failed after its insert into the set    *)
(* leaves no name behind, so a later load of it calls init_module again.   *)
(***************************************************************************)
BeingInserted(n) ==
    \E t \in Threads : \E i \in 1..Len(stack[t]) :
        stack[t][i].name = n /\ stack[t][i].pc = "init"

C27_LoadedSetHoldsOnlyInserted ==
    \A n \in modules_loaded : n \in kernel \/ BeingInserted(n)

(***************************************************************************)
(* C28.  Failing dependency: when the load of a dependency returns an      *)
(* error, every load_module frame above it returns that error at once:     *)
(* the call made by the thread ends with the error, no further dependency  *)
(* is visited, init_module is called for none of the modules that waited   *)
(* for the dependency, none of them enters the loaded set, and the names   *)
(* already in the loaded set stay.                                         *)
(***************************************************************************)
Callers(t) == {stack[t][i].name : i \in 1..(Len(stack[t]) - 1)}

\* The step in which the init_module of a dependency fails on main: the
\* call was made and the kernel holds what it held.
DepFails ==
    /\ Len(stack["main"]) >= 2
    /\ Top("main").pc = "init"
    /\ initCalls'["main"] # initCalls["main"]
    /\ kernel' = kernel

LastResult(t) == results[t][Len(results[t])]

C28_DepErrorPropagates ==
    [][DepFails =>
        /\ stack'["main"] = <<>>
        /\ Len(results'["main"]) = Len(results["main"]) + 1
        /\ LastResult("main")'.name = stack["main"][1].name
        /\ LastResult("main")'.res =
              (IF Top("main").name \in kernel THEN "EEXIST" ELSE "Failed")
        /\ modules_loaded' = modules_loaded
        /\ \A m \in Callers("main") :
              /\ m \notin modules_loaded'
              /\ initCalls'["main"][m] = initCalls["main"][m]
        /\ \A n \in DOMAIN modules \ {Top("main").name} :
              initCalls'["main"][n] = initCalls["main"][n]]_vars

\* load(d) ended with the error of b's init_module: a was loaded for b and
\* stays loaded, neither b's insertion nor e nor d followed.
C28_Witness ==
    /\ stack["main"] = <<>>
    /\ Len(results["main"]) = 1
    /\ results["main"][1] = [name |-> "d", res |-> "Failed"]
    /\ "a" \in kernel /\ "a" \in modules_loaded
    /\ "b" \notin kernel
    /\ initCalls["main"]["b"] = 1
    /\ initCalls["main"]["e"] = 0 /\ "e" \notin modules_loaded
    /\ initCalls["main"]["d"] = 0 /\ "d" \notin modules_loaded

(***************************************************************************)
(* C30.  Output untouched by a failed build: when main has returned an     *)
(* error, the file at the output path is what it was before the run (the   *)
(* previous file, or none), and the output path changes only once the      *)
(* image is assembled (Initramfs::new returned Ok).                        *)
(***************************************************************************)
C30_FailedBuildLeavesOutput ==
    /\ o_pc = "exit_err" => o_file = o_opts.before
    /\ o_file # o_opts.before => g_pc = "done"

(***************************************************************************)
(* C29.  Parents first: in the entry list of the builder, every entry      *)
(* whose path has a parent other than the root is preceded by an entry     *)
(* for that parent, a directory or one of the symlinks of the skeleton     *)
(* (bin, lib, lib64, sbin, usr/lib64, usr/sbin); this holds after every    *)
(* add of Initramfs::new.                                                  *)
(***************************************************************************)
IsSkeletonSymlink(e) ==
    e.kind = "symlink" /\ \E k \in 1..Len(ROOT_SYMLINKS) : ROOT_SYMLINKS[k] = e.name

C29_ParentsPrecedeChildren ==
    \A i \in 1..Len(g_entries) :
        LET path == g_entries[i].name IN
        (path # RootDir /\ Parent(path) # RootDir) =>
            \E j \in 1..(i - 1) :
                /\ g_entries[j].name = Parent(path)
                /\ g_entries[j].kind = "dir" \/ IsSkeletonSymlink(g_entries[j])

\* A finished build with a module four directories below the skeleton's
\* lib, and a library below the skeleton's usr/lib64.
C29_Witness ==
    /\ g_pc = "done"
    /\ \E i \in 1..Len(g_entries) :
          g_entries[i].name = <<"lib", "modules", "6.1", "kernel", "fs", "ext4.ko">>
    /\ \E i \in 1..Len(g_entries) : g_entries[i].name = LibDm1

====
